---- MODULE Spec2Model ----
(***************************************************************************)
(* Model of the RP2040 USB host controller driver                          *)
(* (cotton-usb-host/src/host/rp2040.rs): the control transfer engine, the  *)
(* interrupt entry point, the control-endpoint wait, the packetisers and   *)
(* depacketisers, and the pipe pools the engines allocate from.            *)
(*                                                                         *)
(* crate::async_pool (Pool, Pooled, MultiPooled) is not among the sources; *)
(* its operators below follow section 4.1 of the specification.            *)
(* The peripheral itself (the SIE, the buffer-control handshake) is the    *)
(* environment; its steps follow section 6 of the specification.           *)
(***************************************************************************)
EXTENDS Integers, FiniteSets, Sequences, TLC

----------------------------------------------------------------------------
(* Bounds of the model *)

\* tasks that call control_transfer concurrently
NumTasks == 2
\* largest wLength and largest caller buffer length
MaxLen == 2
\* largest packet_size argument (packet_size > 0)
MaxPacketSize == 2
\* most SIE status flags the peripheral holds raised at one time
MaxFlags == 2
\* tasks that call alloc_interrupt_pipe concurrently
NumPipeUsers == 3
\* device-detect streams held at one time
NumStreams == 2
\* most entries in the list getifaddrs returns
MaxAddrs == 3

----------------------------------------------------------------------------
(* Program constants *)

\* Pool::new(1): the control pool
\* a control pool built with two slots
TwoControlPipes == 1 + 1

ControlPoolSize == 1
\* Pool::new(15): the shared (bulk/interrupt) pool
BulkPoolSize == 15
\* 0x458: the interrupt bits that wake and complete the control-endpoint wait
WakeMask == 1112
\* 0xFF0C_0000 >> 16: written to sie_status by every control-endpoint poll
PollClearHi == 65292
\* 0xFF00_0000 >> 16: written to sie_status by the data-stage loop
LoopClearHi == 65280
\* 0xFFFF_FFFF >> 16: written to sie_status when a stage starts
StartClearHi == 65535

----------------------------------------------------------------------------
(* Bit fields *)

Bit(n, b) == (n \div (2 ^ b)) % 2 = 1

\* bit positions of the interrupt registers (intr, inte, ints)
IntBit ==
    [host_conn_dis |-> 0, trans_complete |-> 3, buff_status |-> 4,
     error_data_seq |-> 5, error_rx_timeout |-> 6, error_rx_overflow |-> 7,
     error_bit_stuff |-> 8, error_crc |-> 9, stall |-> 10]

IntNames == DOMAIN IntBit

\* the interrupt bits selected by a mask
MaskBits(mask) == {i \in IntNames : Bit(mask, IntBit[i])}

\* bit positions of the write-one-to-clear flags of sie_status
SieBit ==
    [trans_complete |-> 18, crc_error |-> 24, bit_stuff_error |-> 25,
     rx_overflow |-> 26, rx_timeout |-> 27, nak_rec |-> 28, stall_rec |-> 29,
     data_seq_error |-> 31]

SieFlags == DOMAIN SieBit

\* the six error flags the engine reports
ErrorFlags ==
    {"data_seq_error", "stall_rec", "rx_overflow", "rx_timeout",
     "bit_stuff_error", "crc_error"}

\* sie_status().write(bits): write-one-to-clear, hi = bits >> 16
sie_status_write(status, hi) == {f \in status : ~Bit(hi, SieBit[f] - 16)}

\* the sie_status flag behind each raw interrupt bit
IntSource ==
    [trans_complete |-> "trans_complete", error_data_seq |-> "data_seq_error",
     error_rx_timeout |-> "rx_timeout", error_rx_overflow |-> "rx_overflow",
     error_bit_stuff |-> "bit_stuff_error", error_crc |-> "crc_error",
     stall |-> "stall_rec"]

\* regs.intr(): the raw interrupt bits, a function of the status registers
intr_of(status, bs) ==
    {i \in DOMAIN IntSource : IntSource[i] \in status}
        \cup (IF bs # {} THEN {"buff_status"} ELSE {})

\* regs.intr() with the connect/disconnect bit, which is latched
ints_of(status, bs, conn) ==
    intr_of(status, bs) \cup (IF conn THEN {"host_conn_dis"} ELSE {})

\* a handler that disables every source
disable_sources_all(enabled, bits) == enabled \ enabled

\* inte().modify(r & !bits)
disable_sources(enabled, bits) == enabled \ bits

----------------------------------------------------------------------------
(* Values *)

Tasks == 1 .. NumTasks
NoTask == 0

\* the device-detect streams a caller may hold, and no stream
Streams == 1 .. NumStreams
NoStream == 0

\* no Rp2040DeviceDetect; no poll_next yet
NoStatus == "none"
NoPipe == -1

NoArgs == [dir |-> "None", wLength |-> 0, buf_len |-> 0, packet_size |-> 0]

\* the arguments of control_transfer: data_phase (with the length of its
\* buffer), setup.wLength and packet_size
Args ==
    [dir : {"In", "Out"}, wLength : 0 .. MaxLen, buf_len : 0 .. MaxLen,
     packet_size : 1 .. MaxPacketSize]
        \cup [dir : {"None"}, wLength : {0}, buf_len : {0},
              packet_size : 1 .. MaxPacketSize]

NoResult == [kind |-> "none", n |-> 0, err |-> ""]
Ok(n) == [kind |-> "Ok", n |-> n, err |-> ""]
Err(e) == [kind |-> "Err", n |-> 0, err |-> e]
Dropped == [kind |-> "dropped", n |-> 0, err |-> ""]

BcHalfZero ==
    [available |-> FALSE, full |-> FALSE, pid |-> FALSE, last |-> FALSE,
     length |-> 0]

\* ep_buffer_control(0).write(bits(0))
BcZero == [h \in {0, 1} |-> BcHalfZero]

NoPacketiser ==
    [kind |-> "none", next_prep |-> 0, remain |-> 0, offset |-> 0,
     packet_size |-> 0, need_zero_size_packet |-> FALSE, buf_len |-> 0]

NoDepacketiser == [kind |-> "none", next_retire |-> 0, remain |-> 0, offset |-> 0]

Min(a, b) == IF a < b THEN a ELSE b

----------------------------------------------------------------------------
VARIABLES
    control_pipes,  \* Rp2040HostController.control_pipes: allocated indices
    bulk_pipes,     \* UsbStatics.bulk_pipes: allocated indices
    pc,             \* where each control_transfer caller is
    args,           \* the arguments of its call in progress
    pipe,           \* _pipe: the control slot it holds, or NoPipe
    result,         \* what its last call returned
    packetiser,     \* the packetiser of its stage in progress
    depacketiser,   \* the depacketiser of its stage in progress
    waker0,         \* shared.pipe_wakers[0]: the registered task
    runnable,       \* tasks about to poll their control-endpoint wait
    sie_status,     \* regs.sie_status(): the raised flags
    buff_status,    \* regs.buff_status(): pipes with a completed buffer
    inte,           \* regs.inte(): enabled interrupt bits
    sie_ctrl,       \* regs.sie_ctrl(): send_setup, receive_data, send_data
    trans,          \* a transaction started by start_trans is in progress
    epx_control,    \* dpram.epx_control()
    bc,             \* dpram.ep_buffer_control(0), both halves
    hw_half,        \* the buffer half the peripheral serves next
    setup_packet,   \* dpram.setup_packet_low/high, and who wrote it
    ip_pc,          \* where each alloc_interrupt_pipe caller is
    ip_args,        \* the arguments of its call in progress
    ip_pipe,        \* Rp2040InterruptPipe.pipe: the slot granted, and n
    multi_live,     \* a Rp2040MultiInterruptPipe exists
    multi_pipes,    \* Rp2040MultiInterruptPipe.pipes: owned pool indices
    try_add_result, \* what the last try_add returned
    pipe_info,      \* Rp2040MultiInterruptPipe.pipe_info: the Some entries
    int_ep,         \* registers of the interrupt endpoints written so far
    unit,           \* a packetiser on its own: size, packet_size, buf.len()
    unit_pk,        \* that packetiser and the register it prepares
    unit_packets,   \* the packets its next_packet has returned, in order
    unit_dp,        \* a depacketiser on its own
    int_ep_ctrl,    \* regs.int_ep_ctrl(): the pipes whose bit is set
    stall_nak,      \* the last write to regs.ep_status_stall_nak(): the
                    \* pairs k with bits 2k and 2k + 1 written
    poll_result,    \* what the last poll of an interrupt pipe returned
    speed,          \* SIE_STATUS.SPEED: 0 none, 1 low speed, 2 full speed
    conn_dis,       \* INTR.HOST_CONN_DIS: latched until SPEED is written
    device_waker,   \* UsbShared.device_waker: the stream registered
    dd_status,      \* Rp2040DeviceDetect.status of each stream
    dd_result,      \* what the last poll_next of each stream returned
    ni_addrs,       \* get_interfaces: what getifaddrs() returned
    ni_pos,         \* the entry its loop is at
    ni_next_index,  \* next_index
    ni_index_map,   \* index_map
    ni_events,      \* the events passed to the callback, in order
    delivered,      \* bytes the device has sent in answer to IN tokens
    arming,         \* the buffer half whose fields are written, available not yet
    polling,        \* what a control-endpoint poll has read, between read and write
    irq_at,         \* what on_irq has read, between its reads and its writes
    pipe_wakers     \* the pipes 1 .. 15 whose pipe_wakers entry holds a waker

ct_vars ==
    <<control_pipes, pc, args, pipe, result, packetiser, depacketiser,
      waker0, runnable>>

hw_vars ==
    <<sie_status, buff_status, inte, sie_ctrl, trans, epx_control, bc,
      hw_half, setup_packet>>

ip_vars ==
    <<bulk_pipes, ip_pc, ip_args, ip_pipe, multi_live, multi_pipes,
      try_add_result, pipe_info, int_ep>>

unit_vars == <<unit, unit_pk, unit_packets, unit_dp>>

poll_vars == <<int_ep_ctrl, stall_nak, poll_result>>

dd_vars == <<speed, conn_dis, device_waker, dd_status, dd_result>>

ni_vars == <<ni_addrs, ni_pos, ni_next_index, ni_index_map, ni_events>>

aux_vars == <<delivered, arming, polling, irq_at, pipe_wakers>>

vars ==
    <<ct_vars, hw_vars, ip_vars, unit_vars, poll_vars, dd_vars, ni_vars,
      aux_vars>>

----------------------------------------------------------------------------
(* Pipe pool (crate::async_pool, specification section 4.1) *)

\* Pool::try_alloc: a free index of a pool of `total` slots, or NoPipe
try_alloc(allocated, total) ==
    IF \E i \in 0 .. total - 1 : i \notin allocated
    THEN CHOOSE i \in 0 .. total - 1 :
             /\ i \notin allocated
             /\ \A j \in 0 .. total - 1 : j \notin allocated => i <= j
    ELSE NoPipe

\* the pool after granting index n
pool_grant(allocated, n) == allocated \cup {n}

\* drop of a Pooled: the slot granted as n returns to the pool
pool_release(allocated, n) == allocated \ {n}

----------------------------------------------------------------------------
(* Packetisers *)

\* an in-packetiser that never asks for a zero-size packet
InPacketiser_new_exact(remain, packet_size) ==
    [kind |-> "In", next_prep |-> 0, remain |-> remain, offset |-> 0,
     packet_size |-> packet_size, need_zero_size_packet |-> FALSE,
     buf_len |-> 0]

\* InPacketiser::new
InPacketiser_new(remain, packet_size) ==
    [kind |-> "In", next_prep |-> 0, remain |-> remain, offset |-> 0,
     packet_size |-> packet_size,
     need_zero_size_packet |-> (remain % packet_size) = 0, buf_len |-> 0]

\* OutPacketiser::new asking for a zero-size packet only after data
OutPacketiser_new_positive(size, packet_size, buf_len) ==
    [kind |-> "Out", next_prep |-> 0, remain |-> size, offset |-> 0,
     packet_size |-> packet_size,
     need_zero_size_packet |-> size > 0 /\ (size % packet_size) = 0,
     buf_len |-> buf_len]

\* OutPacketiser::new
OutPacketiser_new(size, packet_size, buf_len) ==
    [kind |-> "Out", next_prep |-> 0, remain |-> size, offset |-> 0,
     packet_size |-> packet_size,
     need_zero_size_packet |-> (size % packet_size) = 0, buf_len |-> buf_len]

\* next_packet marking a packet of exactly the bytes that remain as last
next_packet_last_when_full(p) ==
    IF p.remain = 0
    THEN IF p.need_zero_size_packet
         THEN [some |-> TRUE, len |-> 0, last |-> TRUE, nzsp |-> FALSE]
         ELSE [some |-> FALSE, len |-> 0, last |-> FALSE, nzsp |-> FALSE]
    ELSE IF p.remain <= p.packet_size
         THEN [some |-> TRUE, len |-> p.remain, last |-> TRUE,
               nzsp |-> p.need_zero_size_packet]
    ELSE [some |-> TRUE, len |-> p.packet_size, last |-> FALSE,
          nzsp |-> p.need_zero_size_packet]

\* next_packet padding a short last packet to the packet size
next_packet_padded(p) ==
    IF p.remain = 0
    THEN IF p.need_zero_size_packet
         THEN [some |-> TRUE, len |-> 0, last |-> TRUE, nzsp |-> FALSE]
         ELSE [some |-> FALSE, len |-> 0, last |-> FALSE, nzsp |-> FALSE]
    ELSE IF p.remain < p.packet_size
         THEN [some |-> TRUE, len |-> p.packet_size, last |-> TRUE,
               nzsp |-> p.need_zero_size_packet]
    ELSE IF p.remain > p.packet_size
         THEN [some |-> TRUE, len |-> p.packet_size, last |-> FALSE,
               nzsp |-> p.need_zero_size_packet]
    ELSE [some |-> TRUE, len |-> p.remain, last |-> FALSE,
          nzsp |-> p.need_zero_size_packet]

\* InPacketiser::next_packet and OutPacketiser::next_packet: the packet
\* (some, length, is_last) and the packetiser's flag afterwards
next_packet(p) ==
    IF p.remain = 0
    THEN IF p.need_zero_size_packet
         THEN [some |-> TRUE, len |-> 0, last |-> TRUE, nzsp |-> FALSE]
         ELSE [some |-> FALSE, len |-> 0, last |-> FALSE, nzsp |-> FALSE]
    ELSE IF p.remain < p.packet_size
         THEN [some |-> TRUE, len |-> p.remain, last |-> TRUE,
               nzsp |-> p.need_zero_size_packet]
    ELSE IF p.remain > p.packet_size
         THEN [some |-> TRUE, len |-> p.packet_size, last |-> FALSE,
               nzsp |-> p.need_zero_size_packet]
    ELSE [some |-> TRUE, len |-> p.remain, last |-> FALSE,
          nzsp |-> p.need_zero_size_packet]

\* a packetiser that always turns to the first half
half_of_first(n) == 0

\* the half a packetiser or depacketiser turns to: match n { 0 => .., _ => .. }
half_of(n) == IF n = 0 THEN 0 ELSE 1

\* <InPacketiser as Packetiser>::prepare on s = [p, bc, panic]
InPacketiser_prepare(s) ==
    LET h == half_of(s.p.next_prep)
        np == next_packet(s.p)
    IN  IF s.panic \/ s.bc[h].available THEN s
        ELSE IF ~np.some
             THEN [s EXCEPT !.p.need_zero_size_packet = np.nzsp]
        ELSE [s EXCEPT
                 !.p.need_zero_size_packet = np.nzsp,
                 !.p.remain = @ - np.len,
                 !.p.next_prep = 1 - h,
                 !.bc[h] = [available |-> TRUE, full |-> FALSE,
                            pid |-> (h = 0), last |-> np.last,
                            length |-> np.len]]

\* <OutPacketiser as Packetiser>::prepare on s = [p, bc, panic]: half 0
\* indexes buf[offset] only for a non-empty packet, half 1 always
OutPacketiser_prepare(s) ==
    LET h == half_of(s.p.next_prep)
        np == next_packet(s.p)
        indexes == IF h = 0 THEN np.len > 0 ELSE TRUE
    IN  IF s.panic \/ s.bc[h].available THEN s
        ELSE IF ~np.some
             THEN [s EXCEPT !.p.need_zero_size_packet = np.nzsp]
        ELSE IF indexes /\ s.p.offset >= s.p.buf_len
             THEN [s EXCEPT !.p.need_zero_size_packet = np.nzsp,
                            !.panic = TRUE]
        ELSE [s EXCEPT
                 !.p.need_zero_size_packet = np.nzsp,
                 !.p.remain = @ - np.len,
                 !.p.offset = @ + np.len,
                 !.p.next_prep = 1 - h,
                 !.bc[h] = [available |-> TRUE,
                            full |-> IF h = 0 /\ np.len = 0
                                     THEN s.bc[h].full ELSE TRUE,
                            pid |-> (h = 0), last |-> np.last,
                            length |-> np.len]]

\* packetiser.prepare(reg), by the type of the packetiser
prepare(s) ==
    IF s.p.kind = "Out" THEN OutPacketiser_prepare(s)
    ELSE InPacketiser_prepare(s)

----------------------------------------------------------------------------
(* Depacketisers *)

\* InDepacketiser::new
InDepacketiser_new(size) ==
    [kind |-> "In", next_retire |-> 0, remain |-> size, offset |-> 0]

\* OutDepacketiser::new
OutDepacketiser_new ==
    [kind |-> "Out", next_retire |-> 0, remain |-> 0, offset |-> 0]

\* retire taking the reported length as it is
InDepacketiser_retire_uncapped(d, reg) ==
    LET h == half_of(d.next_retire)
        this_packet == reg[h].length
    IN  IF reg[h].full
        THEN [d EXCEPT !.remain = @ - this_packet,
                       !.offset = @ + this_packet,
                       !.next_retire = 1 - h]
        ELSE d

\* <InDepacketiser as Depacketiser>::retire
InDepacketiser_retire(d, reg) ==
    LET h == half_of(d.next_retire)
        this_packet == Min(d.remain, reg[h].length)
    IN  IF reg[h].full
        THEN [d EXCEPT !.remain = @ - this_packet,
                       !.offset = @ + this_packet,
                       !.next_retire = 1 - h]
        ELSE d

\* an out-depacketiser that moves on when either half is full
OutDepacketiser_retire_either(d, reg) ==
    LET h == half_of(d.next_retire)
    IN  IF reg[0].full \/ reg[1].full THEN [d EXCEPT !.next_retire = 1 - h]
        ELSE d

\* <OutDepacketiser as Depacketiser>::retire
OutDepacketiser_retire(d, reg) ==
    LET h == half_of(d.next_retire)
    IN  IF reg[h].full THEN [d EXCEPT !.next_retire = 1 - h] ELSE d

\* depacketiser.retire(reg), by the type of the depacketiser
retire(d, reg) ==
    IF d.kind = "Out" THEN OutDepacketiser_retire(d, reg)
    ELSE InDepacketiser_retire(d, reg)

\* InDepacketiser::total
total(d) == d.offset

----------------------------------------------------------------------------
(* The registers as one value, so that a handler's writes compose *)

Hw ==
    [sie_status |-> sie_status, buff_status |-> buff_status, inte |-> inte,
     sie_ctrl |-> sie_ctrl, trans |-> trans, epx_control |-> epx_control,
     bc |-> bc, hw_half |-> hw_half, setup_packet |-> setup_packet]

SetHw(m) ==
    /\ sie_status' = m.sie_status
    /\ buff_status' = m.buff_status
    /\ inte' = m.inte
    /\ sie_ctrl' = m.sie_ctrl
    /\ trans' = m.trans
    /\ epx_control' = m.epx_control
    /\ bc' = m.bc
    /\ hw_half' = m.hw_half
    /\ setup_packet' = m.setup_packet

\* a panic (index out of bounds) stops the firmware: no task runs again
Halted == \E t \in Tasks : pc[t] = "panicked"

\* regs.ints() is not zero: the interrupt line is asserted, and on_irq,
\* which runs at interrupt priority, preempts every task
irq_pending == ints_of(sie_status, buff_status, conn_dis) \cap inte # {}

\* a task can take a step
task_runs == ~Halted /\ ~irq_pending

\* the awaits of the control transfer engine on Rp2040ControlEndpoint
Stages == {"send_setup", "data_in", "data_out", "status"}

----------------------------------------------------------------------------
(* Control-endpoint wait *)

\* <Rp2040ControlEndpoint as Future>::poll, but for the waker registration:
\* Ready(status) when a WakeMask bit is raised in intr, else Pending with
\* stall, error_rx_timeout and trans_complete enabled; sie_status is
\* rewritten in both branches
Rp2040ControlEndpoint_poll(m) ==
    LET status == m.sie_status
        intr == intr_of(m.sie_status, m.buff_status)
        cleared == sie_status_write(m.sie_status, PollClearHi)
    IN  IF intr \cap MaskBits(WakeMask) # {}
        THEN [ready |-> TRUE, status |-> status,
              m |-> [m EXCEPT !.sie_status = cleared]]
        ELSE [ready |-> FALSE, status |-> status,
              m |-> [m EXCEPT !.sie_status = cleared,
                              !.inte = @ \cup {"stall", "error_rx_timeout",
                                               "trans_complete"}]]

\* the checks of send_setup without the one of stall_rec
send_setup_check_nostall(status) ==
    IF "trans_complete" \in status THEN "complete"
    ELSE IF "data_seq_error" \in status THEN "DataSeqError"
    ELSE IF "rx_overflow" \in status THEN "Overflow"
    ELSE IF "rx_timeout" \in status THEN "Timeout"
    ELSE IF "bit_stuff_error" \in status THEN "BitStuffError"
    ELSE IF "crc_error" \in status THEN "CrcError"
    ELSE "again"

\* the checks of control_transfer_inner with rx_timeout before rx_overflow
inner_check_swapped(status) ==
    IF "trans_complete" \in status THEN "complete"
    ELSE IF "data_seq_error" \in status THEN "DataSeqError"
    ELSE IF "stall_rec" \in status THEN "Stall"
    ELSE IF "rx_timeout" \in status THEN "Timeout"
    ELSE IF "rx_overflow" \in status THEN "Overflow"
    ELSE IF "bit_stuff_error" \in status THEN "BitStuffError"
    ELSE IF "crc_error" \in status THEN "CrcError"
    ELSE "again"

\* the checks of control_transfer_inner with a NAK taken for a timeout
inner_check_nak(status) ==
    IF "trans_complete" \in status THEN "complete"
    ELSE IF "data_seq_error" \in status THEN "DataSeqError"
    ELSE IF "stall_rec" \in status THEN "Stall"
    ELSE IF "rx_overflow" \in status THEN "Overflow"
    ELSE IF "rx_timeout" \in status \/ "nak_rec" \in status THEN "Timeout"
    ELSE IF "bit_stuff_error" \in status THEN "BitStuffError"
    ELSE IF "crc_error" \in status THEN "CrcError"
    ELSE "again"

\* the checks of send_setup on the status of a wake-up: "complete" (break),
\* the UsbError returned, or "again" (loop)
send_setup_check(status) ==
    IF "trans_complete" \in status THEN "complete"
    ELSE IF "data_seq_error" \in status THEN "DataSeqError"
    ELSE IF "stall_rec" \in status THEN "Stall"
    ELSE IF "rx_overflow" \in status THEN "Overflow"
    ELSE IF "rx_timeout" \in status THEN "Timeout"
    ELSE IF "bit_stuff_error" \in status THEN "BitStuffError"
    ELSE IF "crc_error" \in status THEN "CrcError"
    ELSE "again"

\* the same checks in control_transfer_inner
inner_check(status) ==
    IF "trans_complete" \in status THEN "complete"
    ELSE IF "data_seq_error" \in status THEN "DataSeqError"
    ELSE IF "stall_rec" \in status THEN "Stall"
    ELSE IF "rx_overflow" \in status THEN "Overflow"
    ELSE IF "rx_timeout" \in status THEN "Timeout"
    ELSE IF "bit_stuff_error" \in status THEN "BitStuffError"
    ELSE IF "crc_error" \in status THEN "CrcError"
    ELSE "again"

----------------------------------------------------------------------------
(* Stages of the control transfer engine, as register transformers *)

\* send_setup up to its first await: program the SETUP packet and start it
send_setup_program(m, t, a) ==
    [m EXCEPT
        !.epx_control = [enable |-> FALSE, double_buffered |-> FALSE,
                         interrupt_per_buff |-> FALSE],
        !.bc = BcZero,
        !.setup_packet = [wLength |-> a.wLength, by |-> t],
        !.sie_status = sie_status_write(@, StartClearHi),
        !.sie_ctrl = [send_setup |-> TRUE, receive_data |-> FALSE,
                      send_data |-> FALSE],
        !.trans = TRUE]

\* the interrupt enables the data-stage loop sets before and clears after
\* its await
InnerInts ==
    {"trans_complete", "error_data_seq", "stall", "error_rx_timeout",
     "error_rx_overflow", "error_bit_stuff", "error_crc"}

\* size / packet_size + 1
packets_of(size, packet_size) == (size \div packet_size) + 1

\* control_transfer_inner from `loop {` to its await, on s = [p, bc, panic]
\* and the registers m
inner_loop_top(m, s, packets, direction, started) ==
    LET s2 == prepare(prepare(s))
        m1 == [m EXCEPT
                  !.bc = s2.bc,
                  !.sie_status = sie_status_write(@, LoopClearHi),
                  !.buff_status = @ \ {0},
                  !.inte = @ \cup InnerInts
                             \cup (IF packets > 2 THEN {"buff_status"}
                                   ELSE {})]
        m2 == IF started THEN m1
              ELSE [m1 EXCEPT
                       !.sie_ctrl = [send_setup |-> FALSE,
                                     receive_data |-> direction = "In",
                                     send_data |-> direction = "Out"],
                       !.trans = TRUE,
                       !.hw_half = 0]
    IN  IF s2.panic
        THEN [m |-> [m EXCEPT !.bc = s2.bc], p |-> s2.p, panic |-> TRUE]
        ELSE [m |-> m2, p |-> s2.p, panic |-> FALSE]

\* control_transfer_inner up to its first await
inner_begin(m, p, direction, size, packet_size) ==
    LET packets == packets_of(size, packet_size)
        s1 == prepare([p |-> p, bc |-> BcZero, panic |-> FALSE])
        m1 == [m EXCEPT
                  !.epx_control = [enable |-> TRUE,
                                   double_buffered |-> packets > 1,
                                   interrupt_per_buff |-> packets > 1],
                  !.bc = s1.bc,
                  !.sie_status = sie_status_write(@, StartClearHi)]
    IN  IF s1.panic
        THEN [m |-> [m1 EXCEPT !.sie_status = m.sie_status], p |-> s1.p,
              panic |-> TRUE]
        ELSE inner_loop_top(m1, s1, packets, direction, FALSE)

----------------------------------------------------------------------------
(* Control transfers *)

\* the exit of a control_transfer that forgot its slot (mem::forget): nothing
\* goes back to the pool
control_transfer_exit_forget(t, res, m, w) ==
    /\ pc' = [pc EXCEPT ![t] = "idle"]
    /\ args' = [args EXCEPT ![t] = NoArgs]
    /\ result' = [result EXCEPT ![t] = res]
    /\ control_pipes' = control_pipes
    /\ pipe' = [pipe EXCEPT ![t] = NoPipe]
    /\ packetiser' = [packetiser EXCEPT ![t] = NoPacketiser]
    /\ depacketiser' = [depacketiser EXCEPT ![t] = NoDepacketiser]
    /\ runnable' = runnable \ {t}
    /\ waker0' = w
    /\ SetHw(m)

\* control_transfer returns res (or its future is dropped): its locals go
\* out of scope, _pipe among them, which returns the control slot
control_transfer_exit(t, res, m, w) ==
    /\ pc' = [pc EXCEPT ![t] = "idle"]
    /\ args' = [args EXCEPT ![t] = NoArgs]
    /\ result' = [result EXCEPT ![t] = res]
    /\ control_pipes' = IF pipe[t] = NoPipe THEN control_pipes
                        ELSE pool_release(control_pipes, pipe[t])
    /\ pipe' = [pipe EXCEPT ![t] = NoPipe]
    /\ packetiser' = [packetiser EXCEPT ![t] = NoPacketiser]
    /\ depacketiser' = [depacketiser EXCEPT ![t] = NoDepacketiser]
    /\ runnable' = runnable \ {t}
    /\ waker0' = w
    /\ SetHw(m)

\* the engine reaches the await of `stage` with registers r.m, or panics
await_stage(t, stage, r, d, w) ==
    /\ pc' = [pc EXCEPT ![t] = IF r.panic THEN "panicked" ELSE stage]
    /\ packetiser' = [packetiser EXCEPT ![t] = r.p]
    /\ depacketiser' = [depacketiser EXCEPT ![t] = d]
    /\ runnable' = IF r.panic THEN runnable \ {t} ELSE runnable \cup {t}
    /\ waker0' = w
    /\ SetHw(r.m)
    /\ UNCHANGED <<args, result, pipe, control_pipes>>

\* control_transfer_in up to the first await of control_transfer_inner
control_transfer_in(t, m, size, buf_len, stage, w) ==
    IF buf_len < size
    THEN control_transfer_exit(t, Err("BufferTooSmall"), m, w)
    ELSE await_stage(t, stage,
             inner_begin(m, InPacketiser_new(size, args[t].packet_size),
                         "In", size, args[t].packet_size),
             InDepacketiser_new(size), w)

\* control_transfer_out up to the first await of control_transfer_inner
control_transfer_out(t, m, size, buf_len, w) ==
    IF buf_len < size
    THEN control_transfer_exit(t, Err("BufferTooSmall"), m, w)
    ELSE await_stage(t, "data_out",
             inner_begin(m, OutPacketiser_new(size, args[t].packet_size,
                                              buf_len),
                         "Out", size, args[t].packet_size),
             OutDepacketiser_new, w)

\* a control_transfer that runs an inbound data stage when there is no
\* data phase
data_phase_always_data(t, m, w) ==
    IF args[t].dir = "Out"
    THEN control_transfer_out(t, m, args[t].wLength, args[t].buf_len, w)
    ELSE control_transfer_in(t, m, args[t].wLength, args[t].buf_len,
                             "data_in", w)

\* control_transfer after send_setup returned Ok: match data_phase
data_phase(t, m, w) ==
    CASE args[t].dir = "In" ->
             control_transfer_in(t, m, args[t].wLength, args[t].buf_len,
                                 "data_in", w)
      [] args[t].dir = "Out" ->
             control_transfer_out(t, m, args[t].wLength, args[t].buf_len, w)
      [] OTHER -> control_transfer_in(t, m, 0, 0, "status", w)

\* control_transfer once alloc_pipe(Control) granted slot n: send_setup up
\* to its first await
send_setup(t, a, n) ==
    /\ control_pipes' = pool_grant(control_pipes, n)
    /\ pipe' = [pipe EXCEPT ![t] = n]
    /\ pc' = [pc EXCEPT ![t] = "send_setup"]
    /\ args' = [args EXCEPT ![t] = a]
    /\ result' = [result EXCEPT ![t] = NoResult]
    /\ runnable' = runnable \cup {t}
    /\ SetHw(send_setup_program(Hw, t, a))
    /\ UNCHANGED <<packetiser, depacketiser, waker0>>

\* a task calls control_transfer: alloc_pipe(Control) grants a slot at once,
\* or the call suspends in it
control_transfer(t, a) ==
    /\ task_runs
    /\ pc[t] = "idle"
    /\ LET n == try_alloc(control_pipes, ControlPoolSize)
       IN  IF n # NoPipe
           THEN send_setup(t, a, n)
           ELSE /\ pc' = [pc EXCEPT ![t] = "alloc"]
                /\ args' = [args EXCEPT ![t] = a]
                /\ result' = [result EXCEPT ![t] = NoResult]
                /\ UNCHANGED <<control_pipes, pipe, packetiser, depacketiser,
                               waker0, runnable, hw_vars>>
    /\ UNCHANGED <<ip_vars, unit_vars, poll_vars, dd_vars, ni_vars, aux_vars>>

\* alloc_pipe(Control): a suspended allocation is granted a freed slot
alloc_pipe(t) ==
    /\ task_runs
    /\ pc[t] = "alloc"
    /\ try_alloc(control_pipes, ControlPoolSize) # NoPipe
    /\ send_setup(t, args[t], try_alloc(control_pipes, ControlPoolSize))
    /\ UNCHANGED <<ip_vars, unit_vars, poll_vars, dd_vars, ni_vars, aux_vars>>

\* a poll of the control-endpoint wait that returns Pending
suspend(t, m) ==
    /\ runnable' = runnable \ {t}
    /\ waker0' = t
    /\ SetHw(m)
    /\ UNCHANGED <<control_pipes, pc, args, pipe, result, packetiser,
                   depacketiser>>

\* the loop of send_setup: one poll of its await and what follows it
send_setup_poll(t) ==
    /\ task_runs
    /\ pc[t] = "send_setup"
    /\ t \in runnable
    /\ LET r == Rp2040ControlEndpoint_poll(Hw)
           o == send_setup_check(r.status)
       IN  IF ~r.ready THEN suspend(t, r.m)
           ELSE IF o = "complete" THEN data_phase(t, r.m, t)
           ELSE IF o = "again"
                THEN /\ waker0' = t
                     /\ SetHw(r.m)
                     /\ UNCHANGED <<control_pipes, pc, args, pipe, result,
                                    packetiser, depacketiser, runnable>>
           ELSE control_transfer_exit(t, Err(o), r.m, t)
    /\ UNCHANGED <<ip_vars, unit_vars, poll_vars, dd_vars, ni_vars, aux_vars>>

\* control_transfer_inner returned Ok(()) in `stage`: what control_transfer
\* does next
inner_returned(t, m, d) ==
    IF pc[t] = "data_out"
    THEN control_transfer_in(t, m, 0, 0, "status", t)
    ELSE control_transfer_exit(t, Ok(total(d)), m, t)

\* the loop of control_transfer_inner: one poll of its await and what
\* follows it
control_transfer_inner(t) ==
    /\ task_runs
    /\ pc[t] \in {"data_in", "data_out", "status"}
    /\ t \in runnable
    /\ LET r == Rp2040ControlEndpoint_poll(Hw)
           o == inner_check(r.status)
           m1 == [r.m EXCEPT !.buff_status = @ \ {0},
                             !.inte = @ \ InnerInts]
           size == IF pc[t] = "status" THEN 0 ELSE args[t].wLength
           direction == IF pc[t] = "data_out" THEN "Out" ELSE "In"
           d == depacketiser[t]
       IN  IF ~r.ready THEN suspend(t, r.m)
           ELSE IF o = "complete"
                THEN inner_returned(t,
                         [m1 EXCEPT !.sie_status =
                                        sie_status_write(@, LoopClearHi)],
                         retire(retire(d, m1.bc), m1.bc))
           ELSE IF o = "again"
                THEN await_stage(t, pc[t],
                         inner_loop_top(m1,
                             [p |-> packetiser[t], bc |-> m1.bc,
                              panic |-> FALSE],
                             packets_of(size, args[t].packet_size),
                             direction, TRUE),
                         retire(retire(d, m1.bc), m1.bc), t)
           ELSE control_transfer_exit(t, Err(o), m1, t)
    /\ UNCHANGED <<ip_vars, unit_vars, poll_vars, dd_vars, ni_vars, aux_vars>>

\* the caller drops the future of control_transfer while it is suspended
drop_future(t) ==
    /\ task_runs
    /\ pc[t] \in Stages \cup {"alloc"}
    /\ control_transfer_exit(t, Dropped, Hw, waker0)
    /\ UNCHANGED <<ip_vars, unit_vars, poll_vars, dd_vars, ni_vars, aux_vars>>

----------------------------------------------------------------------------
(* Interrupt entry point *)

\* pipe_wakers[0].wake(): the registered task is taken and made runnable
wake_pipe0(woken) ==
    IF woken /\ waker0 # NoTask
    THEN /\ waker0' = NoTask
         /\ runnable' = IF pc[waker0] \in Stages
                        THEN runnable \cup {waker0} ELSE runnable
    ELSE UNCHANGED <<waker0, runnable>>

\* device_waker.wake(): the registered stream is taken
wake_device(woken) ==
    device_waker' = IF woken THEN NoStream ELSE device_waker

\* sie_status().modify(speed = 3) writes back what it read with the speed
\* field set.  Every flag of the register is write-one-to-clear: whether
\* the flags read as set are written back as ones (w1c, and so cleared)
\* or masked out of the write depends on the register crate of the build
sie_status_modify_speed(status, w1c) ==
    IF w1c THEN status \ status ELSE status

\* a handler that reads the raw sources, enabled or not
ints_read_raw(status, bs, conn, enabled) == ints_of(status, bs, conn)

\* regs.ints().read(): the raw sources that are enabled
ints_read(status, bs, conn, enabled) ==
    ints_of(status, bs, conn) \cap enabled

\* for i in 0..15: the pipes the wake loop of on_irq visits
WakeLoopEnd == 15

\* the pipes whose pipe_wakers entry on_irq wakes for buffer status: those
\* the loop visits whose bits it finds set, when ints has buff_status
wake_loop(ints, bs) ==
    IF "buff_status" \in ints THEN bs \cap (0 .. WakeLoopEnd - 1) ELSE {}

\* a handler that also hands back the buffers of the control endpoint
UsbShared_on_irq_retiring ==
    /\ bc' = BcZero
    /\ UNCHANGED <<ct_vars, sie_status, buff_status, inte, sie_ctrl, trans,
                   epx_control, hw_half, setup_packet, ip_vars, unit_vars,
                   poll_vars, dd_vars, ni_vars, aux_vars>>

\* UsbShared::on_irq
UsbShared_on_irq ==
    LET ints == ints_read(sie_status, buff_status, conn_dis, inte)
        bs == IF "buff_status" \in ints THEN buff_status \cap {0}
              ELSE buff_status
        conn == "host_conn_dis" \in ints
    IN  \E w1c \in IF conn THEN BOOLEAN ELSE {FALSE} :
            LET status == IF conn
                          THEN sie_status_modify_speed(sie_status, w1c)
                          ELSE sie_status
                bits == ints_read(status, bs, conn_dis /\ ~conn, inte)
            IN  /\ buff_status' = bs
                /\ sie_status' = status
                /\ conn_dis' = (conn_dis /\ ~conn)
                /\ inte' = disable_sources(inte, bits)
                /\ wake_pipe0(\/ "buff_status" \in ints /\ 0 \in buff_status
                              \/ ints \cap MaskBits(WakeMask) # {})
                /\ wake_device(conn)
                /\ pipe_wakers' = pipe_wakers \ wake_loop(ints, buff_status)
                /\ UNCHANGED <<control_pipes, pc, args, pipe, result,
                               packetiser, depacketiser, sie_ctrl, trans,
                               epx_control, bc, hw_half, setup_packet,
                               ip_vars, unit_vars, poll_vars, speed,
                               dd_status, dd_result, ni_vars, delivered,
                               arming, polling, irq_at>>

\* on_irq entered when an enabled interrupt bit is raised
on_irq == irq_pending /\ UsbShared_on_irq

\* on_irq entered by the platform while regs.ints() reads zero
on_irq_spurious == ~irq_pending /\ UsbShared_on_irq


----------------------------------------------------------------------------
(* The peripheral *)

\* the SETUP transaction completes
hw_setup_complete ==
    /\ trans
    /\ sie_ctrl.send_setup
    /\ sie_status' = sie_status \cup {"trans_complete"}
    /\ trans' = FALSE
    /\ UNCHANGED <<ct_vars, buff_status, inte, sie_ctrl, epx_control, bc,
                   hw_half, setup_packet, ip_vars,
                   unit_vars, poll_vars, dd_vars, ni_vars, aux_vars>>

\* the SIE raises an error flag or NAK during a transaction
hw_raise(f) ==
    /\ trans
    /\ f \in SieFlags \ {"trans_complete"}
    /\ f \notin sie_status
    /\ Cardinality(sie_status \ {"trans_complete"}) < MaxFlags
    /\ sie_status' = sie_status \cup {f}
    /\ UNCHANGED <<ct_vars, buff_status, inte, sie_ctrl, trans, epx_control,
                   bc, hw_half, setup_packet, ip_vars,
                   unit_vars, poll_vars, dd_vars, ni_vars, aux_vars>>

\* a buffer half of the control pipe completes: the transfer ends with the
\* half marked last or, inbound, with a short packet
hw_buffer_done(half, ended) ==
    /\ bc' = [bc EXCEPT ![hw_half] = half]
    /\ buff_status' = IF epx_control.interrupt_per_buff
                      THEN buff_status \cup {0} ELSE buff_status
    /\ sie_status' = IF ended THEN sie_status \cup {"trans_complete"}
                     ELSE sie_status
    /\ trans' = ~ended
    /\ hw_half' = IF epx_control.double_buffered THEN 1 - hw_half
                  ELSE hw_half
    /\ UNCHANGED <<ct_vars, inte, sie_ctrl, epx_control, setup_packet,
                   ip_vars, unit_vars, poll_vars, dd_vars, ni_vars>>

\* the device answers an IN token with n bytes into the armed half
hw_in_packet(n) ==
    /\ trans
    /\ sie_ctrl.receive_data
    /\ epx_control.enable
    /\ bc[hw_half].available
    /\ n \in 0 .. bc[hw_half].length
    /\ hw_buffer_done([bc[hw_half] EXCEPT !.available = FALSE,
                                          !.full = TRUE, !.length = n],
                      bc[hw_half].last \/ n < bc[hw_half].length)
    /\ UNCHANGED <<aux_vars>>

\* the same answer, with the bytes the device sends counted
hw_in_counted(n) ==
    /\ trans
    /\ sie_ctrl.receive_data
    /\ epx_control.enable
    /\ bc[hw_half].available
    /\ n \in 0 .. bc[hw_half].length
    /\ hw_buffer_done([bc[hw_half] EXCEPT !.available = FALSE,
                                          !.full = TRUE, !.length = n],
                      bc[hw_half].last \/ n < bc[hw_half].length)
    /\ delivered' = delivered + n
    /\ UNCHANGED <<arming, polling, irq_at, pipe_wakers>>

\* the armed half is sent to the device and acknowledged
hw_out_packet ==
    /\ trans
    /\ sie_ctrl.send_data
    /\ epx_control.enable
    /\ bc[hw_half].available
    /\ hw_buffer_done([bc[hw_half] EXCEPT !.available = FALSE,
                                          !.full = FALSE],
                      bc[hw_half].last)
    /\ UNCHANGED <<aux_vars>>

----------------------------------------------------------------------------
(* Specification of the control transfer engine *)

PipeUsers == 1 .. NumPipeUsers

NoPipeArgs ==
    [address |-> 0, endpoint |-> 0, max_packet_size |-> 0, interval_ms |-> 0]

\* no Rp2040InterruptPipe: a Pooled that holds nothing
NoPooled ==
    [slot |-> NoPipe, n |-> NoPipe, max_packet_size |-> 0,
     data_toggle |-> FALSE]

\* no buffer half is between the write of its fields and the write of its
\* available bit
NoArming == [site |-> "none", n |-> 0]

\* no control-endpoint poll is between its reads and its write
NoPolling == [t |-> NoTask, status |-> {}, intr |-> {}]

\* on_irq is not running
NoIrq == [at |-> "none", ints |-> {}, bs |-> {}]

\* the InterruptPacket a poll returns (`some`), or None
NoPacket == [some |-> FALSE, size |-> 0, address |-> 0, endpoint |-> 0]
InterruptPacket(size, address, endpoint) ==
    [some |-> TRUE, size |-> size, address |-> address,
     endpoint |-> endpoint]


----------------------------------------------------------------------------
(* Device detection *)

\* the DeviceStatus poll_next derives from sie_status.speed
device_status(sp) ==
    IF sp = 0 THEN "Absent" ELSE IF sp = 1 THEN "Low1_5" ELSE "Full12"

\* a stream that starts from the status of the bus
Rp2040DeviceDetect_new_current(sp) == device_status(sp)

\* Rp2040DeviceDetect::new: the status a new stream starts from, whatever
\* sie_status.speed reads

Rp2040DeviceDetect_new(sp) == "Absent"

\* Rp2040HostController::device_detect
device_detect(s) ==
    /\ task_runs
    /\ dd_status[s] = NoStatus
    /\ dd_status' = [dd_status EXCEPT ![s] = Rp2040DeviceDetect_new(speed)]
    /\ UNCHANGED <<ct_vars, hw_vars, ip_vars, unit_vars, poll_vars, speed,
                   conn_dis, device_waker, dd_result, ni_vars, aux_vars>>

\* the stream is dropped
drop_device_detect(s) ==
    /\ task_runs
    /\ dd_status[s] # NoStatus
    /\ dd_status' = [dd_status EXCEPT ![s] = NoStatus]
    /\ dd_result' = [dd_result EXCEPT ![s] = NoStatus]
    /\ UNCHANGED <<ct_vars, hw_vars, ip_vars, unit_vars, poll_vars, speed,
                   conn_dis, device_waker, ni_vars, aux_vars>>

\* a level-triggered poll_next
poll_next_level(derived, last) == derived

\* what poll_next returns for the status it derived and self.status:
\* Poll::Ready(Some(status)) is written as the status

poll_next_result(derived, last) ==
    IF derived # last THEN derived ELSE "Pending"

\* Rp2040DeviceDetect::poll_next
poll_next(s) ==
    LET derived == device_status(speed)
        r == poll_next_result(derived, dd_status[s])
    IN  /\ task_runs
        /\ dd_status[s] # NoStatus
        /\ device_waker' = s
        /\ inte' = inte \cup {"host_conn_dis"}
        /\ dd_status' = [dd_status EXCEPT
                             ![s] = IF r = "Pending" THEN @ ELSE derived]
        /\ dd_result' = [dd_result EXCEPT ![s] = r]
        /\ UNCHANGED <<ct_vars, sie_status, buff_status, sie_ctrl, trans,
                       epx_control, bc, hw_half, setup_packet, ip_vars,
                       unit_vars, poll_vars, speed, conn_dis, ni_vars,
                       aux_vars>>

\* the peripheral sees a device attach, detach or change speed
hw_conn_dis(sp) ==
    /\ sp # speed
    /\ speed' = sp
    /\ conn_dis' = TRUE
    /\ UNCHANGED <<ct_vars, hw_vars, ip_vars, unit_vars, poll_vars,
                   device_waker, dd_status, dd_result, ni_vars, aux_vars>>

Speeds == 0 .. 2

NextDetect ==
    \/ \E s \in Streams : device_detect(s)
    \/ \E s \in Streams : poll_next(s)
    \/ \E s \in Streams : drop_device_detect(s)
    \/ \E sp \in Speeds : hw_conn_dis(sp)
    \/ on_irq


NoUnit == [size |-> 0, packet_size |-> 0, buf_len |-> 0]

\* Rp2040HostController::new with UsbShared::new and UsbStatics::new
Rp2040HostController_new ==
    /\ control_pipes = {}
    /\ bulk_pipes = {}
    /\ pc = [t \in Tasks |-> "idle"]
    /\ args = [t \in Tasks |-> NoArgs]
    /\ pipe = [t \in Tasks |-> NoPipe]
    /\ result = [t \in Tasks |-> NoResult]
    /\ packetiser = [t \in Tasks |-> NoPacketiser]
    /\ depacketiser = [t \in Tasks |-> NoDepacketiser]
    /\ waker0 = NoTask
    /\ runnable = {}
    /\ sie_status = {}
    /\ buff_status = {}
    /\ inte = {"host_conn_dis"}
    /\ sie_ctrl = [send_setup |-> FALSE, receive_data |-> FALSE,
                   send_data |-> FALSE]
    /\ trans = FALSE
    /\ epx_control = [enable |-> FALSE, double_buffered |-> FALSE,
                      interrupt_per_buff |-> FALSE]
    /\ bc = BcZero
    /\ hw_half = 0
    /\ setup_packet = [wLength |-> 0, by |-> NoTask]
    /\ ip_pc = [u \in PipeUsers |-> "idle"]
    /\ ip_args = [u \in PipeUsers |-> NoPipeArgs]
    /\ ip_pipe = [u \in PipeUsers |-> NoPooled]
    /\ multi_live = FALSE
    /\ multi_pipes = {}
    /\ try_add_result = "none"
    /\ pipe_info = <<>>
    /\ int_ep = <<>>
    /\ int_ep_ctrl = {}
    /\ stall_nak = {}
    /\ poll_result = NoPacket
    /\ speed = 0
    /\ conn_dis = FALSE
    /\ device_waker = NoStream
    /\ dd_status = [s \in Streams |-> NoStatus]
    /\ dd_result = [s \in Streams |-> NoStatus]

\* get_interfaces is not running
NetifIdle ==
    /\ ni_addrs = <<>>
    /\ ni_pos = 1
    /\ ni_next_index = 1
    /\ ni_index_map = <<>>
    /\ ni_events = <<>>

\* the driver after construction; no packetiser is exercised on its own
Init ==
    /\ Rp2040HostController_new
    /\ NetifIdle
    /\ delivered = 0
    /\ arming = NoArming
    /\ polling = NoPolling
    /\ irq_at = NoIrq
    /\ pipe_wakers = {}
    /\ unit = NoUnit
    /\ unit_pk = [p |-> NoPacketiser, bc |-> BcZero, panic |-> FALSE]
    /\ unit_packets = <<>>
    /\ unit_dp = NoDepacketiser

\* streams of device statuses, with a device that comes and goes
SpecDetect == Init /\ [][NextDetect]_vars

\* the flags the peripheral raises in the specifications that follow whole
\* transfers: one of each kind (in WakeMask, outside it, no interrupt)
EngineFlags == {"stall_rec", "crc_error", "nak_rec", "data_seq_error"}

\* one caller, every argument
NextEngine ==
    \/ \E a \in Args : control_transfer(1, a)
    \/ send_setup_poll(1)
    \/ control_transfer_inner(1)
    \/ drop_future(1)
    \/ on_irq
    \/ hw_setup_complete
    \/ \E f \in EngineFlags : hw_raise(f)
    \/ \E n \in 0 .. MaxPacketSize : hw_in_packet(n)
    \/ hw_out_packet

SpecEngine == Init /\ [][NextEngine]_vars

----------------------------------------------------------------------------
(* Specification of concurrent callers of control_transfer *)

\* the arguments and the flag of the specification of concurrent callers:
\* one-byte packets into a one-byte buffer, and the stall flag
CallArgs ==
    {a \in Args : a.packet_size = 1 /\ a.wLength <= 1
                  /\ (a.dir # "None" => a.buf_len = 1)}

CallFlags == {"stall_rec"}

Next ==
    \/ \E t \in Tasks : \E a \in CallArgs : control_transfer(t, a)
    \/ \E t \in Tasks : alloc_pipe(t)
    \/ \E t \in Tasks : send_setup_poll(t)
    \/ \E t \in Tasks : control_transfer_inner(t)
    \/ \E t \in Tasks : drop_future(t)
    \/ on_irq
    \/ hw_setup_complete
    \/ \E f \in CallFlags : hw_raise(f)
    \/ \E n \in 0 .. MaxPacketSize : hw_in_packet(n)
    \/ hw_out_packet

Spec == Init /\ [][Next]_vars

----------------------------------------------------------------------------
(* Specification of the wake-ups of one control transfer: every status    *)
(* flag, up to MaxFlags of them raised together                           *)

\* one-byte packets and a buffer that holds them, outbound with room past
\* the last byte
WakeArgs ==
    {a \in Args : /\ a.packet_size = 1
                  /\ a.wLength <= 1
                  /\ a.buf_len = IF a.dir = "Out" THEN 2 * a.wLength
                                 ELSE a.wLength}

WakeFlags == SieFlags \ {"trans_complete"}

NextWake ==
    \/ \E a \in WakeArgs : control_transfer(1, a)
    \/ send_setup_poll(1)
    \/ control_transfer_inner(1)
    \/ drop_future(1)
    \/ on_irq
    \/ hw_setup_complete
    \/ \E f \in WakeFlags : hw_raise(f)
    \/ \E n \in 0 .. MaxPacketSize : hw_in_packet(n)
    \/ hw_out_packet

SpecWake == Init /\ [][NextWake]_vars

----------------------------------------------------------------------------
(* Specification of one inbound control transfer that its caller keeps     *)
(* awaiting, with the error flags: the interrupt is taken whenever its line *)
(* is asserted, and the executor polls a woken task                         *)

FairArgs == {a \in WakeArgs : a.dir = "In" /\ a.wLength = 1}

NextFair ==
    \/ \E a \in FairArgs : control_transfer(1, a)
    \/ send_setup_poll(1)
    \/ control_transfer_inner(1)
    \/ on_irq
    \/ hw_setup_complete
    \/ \E f \in ErrorFlags : hw_raise(f)
    \/ \E n \in 0 .. MaxPacketSize : hw_in_packet(n)

SpecFair ==
    /\ Init
    /\ [][NextFair]_vars
    /\ WF_vars(on_irq)
    /\ WF_vars(send_setup_poll(1))
    /\ WF_vars(control_transfer_inner(1))

----------------------------------------------------------------------------
(* Interrupt pipes on the shared pool *)

\* f with key k set to v
Put(f, k, v) == [x \in DOMAIN f \cup {k} |-> IF x = k THEN v ELSE f[x]]

\* the arguments of alloc_interrupt_pipe and try_add
PipeArgs(addresses, sizes) ==
    [address : addresses, endpoint : {1}, max_packet_size : sizes,
     interval_ms : {10}]

\* pipe.n += 1 in alloc_interrupt_pipe: the hardware pipe of pool index i
interrupt_pipe_n(i) == i + 1

\* try_add without the + 1
try_add_p_unshifted(i) == i

\* try_alloc()? + 1 in try_add: the hardware pipe of pool index i
try_add_p(i) == i + 1

\* the registers of hardware pipe n as alloc_interrupt_pipe and try_add
\* leave them: host_addr_endp(n - 1), ep_control(n * 2 - 2) and
\* ep_buffer_control(n * 2)
endpoint_armed(n, a) ==
    [address |-> a.address, endpoint |-> a.endpoint, enable |-> TRUE,
     interrupt_per_buff |-> TRUE, buffer_address |-> 512 + n * 64,
     host_poll_interval |-> Min(a.interval_ms, 9),
     available |-> TRUE, full |-> FALSE, pid |-> FALSE, last |-> TRUE,
     length |-> a.max_packet_size]

\* alloc_interrupt_pipe once bulk_pipes.alloc() granted slot i
alloc_interrupt_pipe_granted(u, a, i) ==
    /\ bulk_pipes' = pool_grant(bulk_pipes, i)
    /\ ip_pipe' = [ip_pipe EXCEPT ![u] =
                       [slot |-> i, n |-> interrupt_pipe_n(i),
                        max_packet_size |-> a.max_packet_size,
                        data_toggle |-> FALSE]]
    /\ int_ep' = Put(int_ep, interrupt_pipe_n(i),
                     endpoint_armed(interrupt_pipe_n(i), a))
    /\ ip_pc' = [ip_pc EXCEPT ![u] = "held"]
    /\ ip_args' = [ip_args EXCEPT ![u] = NoPipeArgs]
    /\ UNCHANGED <<multi_live, multi_pipes, try_add_result, pipe_info>>

\* alloc_interrupt_pipe on try_alloc().unwrap_or_default(): it never suspends
alloc_interrupt_pipe_nowait(u, a) ==
    /\ task_runs
    /\ ip_pc[u] = "idle"
    /\ LET i == try_alloc(bulk_pipes, BulkPoolSize)
       IN  alloc_interrupt_pipe_granted(u, a, IF i = NoPipe THEN 0 ELSE i)
    /\ UNCHANGED <<ct_vars, hw_vars, unit_vars, poll_vars, dd_vars, ni_vars,
                   aux_vars>>

\* a task calls alloc_interrupt_pipe: a slot is granted at once, or the call
\* suspends in bulk_pipes.alloc()
alloc_interrupt_pipe(u, a) ==
    /\ task_runs
    /\ ip_pc[u] = "idle"
    /\ LET i == try_alloc(bulk_pipes, BulkPoolSize)
       IN  IF i # NoPipe
           THEN alloc_interrupt_pipe_granted(u, a, i)
           ELSE /\ ip_pc' = [ip_pc EXCEPT ![u] = "alloc"]
                /\ ip_args' = [ip_args EXCEPT ![u] = a]
                /\ UNCHANGED <<bulk_pipes, ip_pipe, int_ep, multi_live,
                               multi_pipes, try_add_result, pipe_info>>
    /\ UNCHANGED <<ct_vars, hw_vars, unit_vars, poll_vars, dd_vars, ni_vars,
                   aux_vars>>

\* a suspended alloc_interrupt_pipe is granted a freed slot
alloc_interrupt_pipe_resume(u) ==
    /\ task_runs
    /\ ip_pc[u] = "alloc"
    /\ try_alloc(bulk_pipes, BulkPoolSize) # NoPipe
    /\ alloc_interrupt_pipe_granted(u, ip_args[u],
                                    try_alloc(bulk_pipes, BulkPoolSize))
    /\ UNCHANGED <<ct_vars, hw_vars, unit_vars, poll_vars, dd_vars, ni_vars,
                   aux_vars>>

\* the Rp2040InterruptPipe, or the suspended future of alloc_interrupt_pipe,
\* is dropped: the Pooled returns its slot
drop_interrupt_pipe(u) ==
    /\ task_runs
    /\ ip_pc[u] \in {"held", "alloc"}
    /\ bulk_pipes' = IF ip_pc[u] = "held"
                     THEN pool_release(bulk_pipes, ip_pipe[u].slot)
                     ELSE bulk_pipes
    /\ ip_pipe' = [ip_pipe EXCEPT ![u] = NoPooled]
    /\ ip_pc' = [ip_pc EXCEPT ![u] = "idle"]
    /\ ip_args' = [ip_args EXCEPT ![u] = NoPipeArgs]
    /\ UNCHANGED <<int_ep, multi_live, multi_pipes, try_add_result,
                   pipe_info, ct_vars, hw_vars,
                   unit_vars, poll_vars, dd_vars, ni_vars, aux_vars>>

\* Rp2040HostController::multi_interrupt_pipe
multi_interrupt_pipe ==
    /\ task_runs
    /\ ~multi_live
    /\ multi_live' = TRUE
    /\ multi_pipes' = {}
    /\ pipe_info' = <<>>
    /\ try_add_result' = "none"
    /\ UNCHANGED <<bulk_pipes, ip_pc, ip_args, ip_pipe, int_ep, ct_vars,
                   hw_vars, unit_vars, poll_vars, dd_vars, ni_vars, aux_vars>>

\* try_add on try_alloc().unwrap_or_default() + 1: with no slot free it
\* sets up pipe 1 again
try_add_default(a) ==
    /\ task_runs
    /\ multi_live
    /\ LET free == try_alloc(bulk_pipes, BulkPoolSize)
           i == IF free = NoPipe THEN 0 ELSE free
           p == try_add_p(i)
       IN  /\ try_add_result' = "Ok"
           /\ bulk_pipes' = pool_grant(bulk_pipes, i)
           /\ multi_pipes' = multi_pipes \cup {i}
           /\ pipe_info' = Put(pipe_info, p,
                               [address |-> a.address,
                                endpoint |-> a.endpoint,
                                max_packet_size |-> a.max_packet_size,
                                data_toggle |-> FALSE])
           /\ int_ep' = Put(int_ep, p, endpoint_armed(p, a))
    /\ UNCHANGED <<ip_pc, ip_args, ip_pipe, multi_live, ct_vars, hw_vars,
                   unit_vars, poll_vars, dd_vars, ni_vars, aux_vars>>

\* <Rp2040MultiInterruptPipe as MultiInterruptPipe>::try_add
try_add(a) ==
    /\ task_runs
    /\ multi_live
    /\ LET i == try_alloc(bulk_pipes, BulkPoolSize)
           p == try_add_p(i)
       IN  IF i = NoPipe
           THEN /\ try_add_result' = "AllPipesInUse"
                /\ UNCHANGED <<bulk_pipes, multi_pipes, pipe_info, int_ep>>
           ELSE /\ try_add_result' = "Ok"
                /\ bulk_pipes' = pool_grant(bulk_pipes, i)
                /\ multi_pipes' = multi_pipes \cup {i}
                /\ pipe_info' = Put(pipe_info, p,
                                    [address |-> a.address,
                                     endpoint |-> a.endpoint,
                                     max_packet_size |-> a.max_packet_size,
                                     data_toggle |-> FALSE])
                /\ int_ep' = Put(int_ep, p, endpoint_armed(p, a))
    /\ UNCHANGED <<ip_pc, ip_args, ip_pipe, multi_live, ct_vars, hw_vars,
                   unit_vars, poll_vars, dd_vars, ni_vars, aux_vars>>

\* the Rp2040MultiInterruptPipe is dropped: its MultiPooled returns every
\* slot it owns
drop_multi_interrupt_pipe ==
    /\ task_runs
    /\ multi_live
    /\ multi_live' = FALSE
    /\ bulk_pipes' = bulk_pipes \ multi_pipes
    /\ multi_pipes' = {}
    /\ pipe_info' = <<>>
    /\ try_add_result' = "none"
    /\ UNCHANGED <<ip_pc, ip_args, ip_pipe, int_ep, ct_vars, hw_vars,
                   unit_vars, poll_vars, dd_vars, ni_vars, aux_vars>>

----------------------------------------------------------------------------
(* Polls of the interrupt pipes *)

\* the capacity of InterruptPacket.data
InterruptPacketCapacity == 64

\* the size recorded for a poll that panicked
Panicked == 0 - 1

\* the packet size taken as the register reports it
interrupt_packet_size_uncapped(reg) == reg.length

\* core::cmp::min(bc.length_0().bits(), 64) as u8
interrupt_packet_size(reg) == Min(reg.length, InterruptPacketCapacity)

\* a poll arming the buffer again with the pid it had
rearmed_same_pid(ep, toggle, max_packet_size) ==
    [ep EXCEPT !.full = FALSE, !.length = max_packet_size, !.last = TRUE,
               !.available = TRUE]

\* the buffer-control word after a poll has taken its packet: write() of
\* full_0, pid_0, length_0 and last_0, then modify() of available_0
rearmed(ep, toggle, max_packet_size) ==
    [ep EXCEPT !.full = FALSE, !.pid = toggle, !.length = max_packet_size,
               !.last = TRUE, !.available = TRUE]

\* the bit of the neighbouring pipe
int_ep_bit_below(n) == {n - 1}

\* 1 << self.pipe.n: the bit of pipe n in int_ep_ctrl
int_ep_bit(n) == {n}

\* 3 << (self.pipe.n * 2): the pair of bits of pipe n in ep_status_stall_nak
stall_nak_mask(n) == {n}

\* <Rp2040InterruptPipe as InterruptPipe>::poll
Rp2040InterruptPipe_poll(u) ==
    /\ task_runs
    /\ ip_pc[u] = "held"
    /\ LET n == ip_pipe[u].n
           reg == int_ep[n]
           toggle == ~ip_pipe[u].data_toggle
       IN  IF reg.full
           THEN /\ poll_result' =
                       InterruptPacket(interrupt_packet_size(reg), 0, 0)
                /\ ip_pipe' = [ip_pipe EXCEPT ![u].data_toggle = toggle]
                /\ int_ep' = [int_ep EXCEPT ![n] =
                                 rearmed(reg, toggle,
                                         ip_pipe[u].max_packet_size)]
                /\ UNCHANGED <<inte, int_ep_ctrl, stall_nak>>
           ELSE /\ poll_result' = NoPacket
                /\ inte' = inte \cup {"buff_status"}
                /\ int_ep_ctrl' = int_ep_ctrl \cup int_ep_bit(n)
                /\ stall_nak' = stall_nak_mask(n)
                /\ UNCHANGED <<ip_pipe, int_ep>>
    /\ UNCHANGED <<bulk_pipes, ip_pc, ip_args, multi_live, multi_pipes,
                   try_add_result, pipe_info, ct_vars, sie_status,
                   buff_status, sie_ctrl, trans, epx_control, bc, hw_half,
                   setup_packet, unit_vars, dd_vars, ni_vars, aux_vars>>

\* MultiPooled::iter yields the owned pool indices in ascending order: the
\* first of a non-empty set of them
first_owned(owned) ==
    CHOOSE i \in owned : \A j \in owned : i <= j

\* the packet without the address and endpoint of its PipeInfo
multi_packet_untagged(info, reg) ==
    InterruptPacket(interrupt_packet_size(reg), 0, 0)

\* the InterruptPacket of Rp2040MultiInterruptPipe::poll
multi_packet(info, reg) ==
    InterruptPacket(interrupt_packet_size(reg), info.address, info.endpoint)

\* the interrupt sources of all owned slots, enabled: inte().buff_status,
\* int_ep_ctrl |= pipes.bits() * 2, ep_status_stall_nak.write(mask)
multi_enable ==
    /\ inte' = inte \cup {"buff_status"}
    /\ int_ep_ctrl' = int_ep_ctrl \cup {k + 1 : k \in multi_pipes}
    /\ stall_nak' = multi_pipes

\* a poll that enables the interrupt sources although it returns a packet
multi_poll_some_enabling(i) ==
    LET p == i + 1
        info == pipe_info[p]
        toggle == ~info.data_toggle
    IN  /\ poll_result' = multi_packet(info, int_ep[p])
        /\ pipe_info' = [pipe_info EXCEPT ![p].data_toggle = toggle]
        /\ int_ep' = [int_ep EXCEPT ![p] =
                         rearmed(int_ep[p], toggle, info.max_packet_size)]
        /\ multi_enable

\* Rp2040MultiInterruptPipe::poll on finding the slot of pool index i full;
\* pipe_info[pipe].unwrap() on an absent entry panics
multi_poll_some(i) ==
    LET p == i + 1
        info == pipe_info[p]
        toggle == ~info.data_toggle
    IN  IF p \notin DOMAIN pipe_info
        THEN /\ poll_result' = [NoPacket EXCEPT !.size = Panicked]
             /\ UNCHANGED <<pipe_info, int_ep, inte, int_ep_ctrl,
                            stall_nak>>
        ELSE /\ poll_result' = multi_packet(info, int_ep[p])
             /\ pipe_info' = [pipe_info EXCEPT ![p].data_toggle = toggle]
             /\ int_ep' = [int_ep EXCEPT ![p] =
                              rearmed(int_ep[p], toggle,
                                      info.max_packet_size)]
             /\ UNCHANGED <<inte, int_ep_ctrl, stall_nak>>

\* the owned pool indices whose slot is full
full_owned == {i \in multi_pipes : int_ep[i + 1].full}

\* <Rp2040MultiInterruptPipe as InterruptPipe>::poll; no poll follows one
\* that panicked
Rp2040MultiInterruptPipe_poll ==
    /\ task_runs
    /\ multi_live
    /\ poll_result.size # Panicked
    /\ IF full_owned # {}
       THEN multi_poll_some(first_owned(full_owned))
       ELSE /\ poll_result' = NoPacket
            /\ multi_enable
            /\ UNCHANGED <<pipe_info, int_ep>>
    /\ UNCHANGED <<bulk_pipes, ip_pc, ip_args, ip_pipe, multi_live,
                   multi_pipes, try_add_result, ct_vars, sie_status,
                   buff_status, sie_ctrl, trans, epx_control, bc, hw_half,
                   setup_packet, unit_vars, dd_vars, ni_vars, aux_vars>>

\* the peripheral polls an active interrupt endpoint and the device answers
\* with len bytes: the armed half comes back full
hw_interrupt_packet(n, len) ==
    /\ n \in DOMAIN int_ep
    /\ n \in int_ep_ctrl
    /\ int_ep[n].enable
    /\ int_ep[n].available
    /\ len <= int_ep[n].length
    /\ int_ep' = [int_ep EXCEPT ![n].available = FALSE, ![n].full = TRUE,
                                ![n].length = len]
    /\ buff_status' = IF int_ep[n].interrupt_per_buff
                      THEN buff_status \cup {n} ELSE buff_status
    /\ UNCHANGED <<bulk_pipes, ip_pc, ip_args, ip_pipe, multi_live,
                   multi_pipes, try_add_result, pipe_info, ct_vars,
                   sie_status, inte, sie_ctrl, trans, epx_control, bc,
                   hw_half, setup_packet, unit_vars, poll_vars, dd_vars,
                   ni_vars, aux_vars>>

----------------------------------------------------------------------------
(* Specification of the interrupt pipes in use: one single-endpoint pipe and
   one multiplexed pipe of up to MaxEndpoints endpoints, polled while the
   peripheral completes their buffers *)

MaxEndpoints == 2

\* one small and one beyond the capacity of InterruptPacket.data
InterruptSizes == {8, InterruptPacketCapacity + 1}

\* a device at address 1 with small packets, one at address 2 with large
InterruptArgs ==
    PipeArgs({1}, {8}) \cup PipeArgs({2}, {InterruptPacketCapacity + 1})

NextInterrupt ==
    \/ \E a \in InterruptArgs : alloc_interrupt_pipe(1, a)
    \/ drop_interrupt_pipe(1)
    \/ multi_interrupt_pipe
    \/ \E a \in InterruptArgs :
           Cardinality(multi_pipes) < MaxEndpoints /\ try_add(a)
    \/ Rp2040InterruptPipe_poll(1)
    \/ Rp2040MultiInterruptPipe_poll
    \/ \E n \in 1 .. BulkPoolSize : \E len \in InterruptSizes :
           hw_interrupt_packet(n, len)
    \/ on_irq

SpecInterrupt == Init /\ [][NextInterrupt]_vars

----------------------------------------------------------------------------
(* Specification of the shared pool under contention: three holders of   *)
(* single pipes and one multiplexed pipe                                  *)

PoolPipeArgs == PipeArgs({1}, {8})

NextPool ==
    \/ \E u \in PipeUsers : \E a \in PoolPipeArgs : alloc_interrupt_pipe(u, a)
    \/ \E u \in PipeUsers : alloc_interrupt_pipe_resume(u)
    \/ \E u \in PipeUsers : drop_interrupt_pipe(u)
    \/ multi_interrupt_pipe
    \/ \E a \in PoolPipeArgs : try_add(a)
    \/ drop_multi_interrupt_pipe

SpecPool == Init /\ [][NextPool]_vars

----------------------------------------------------------------------------
(* Packetisers and depacketisers on their own: every size and packet size,
   prepare interleaved with completions of the armed halves, retire on
   every value of the buffer-control register *)

MaxSize == 6

\* the sizes, packet sizes and buffers a stage is constructed with:
\* control_transfer_out passes a buffer of at least `size` bytes
Units ==
    {u \in [size : 0 .. MaxSize, packet_size : 1 .. MaxPacketSize,
            buf_len : 0 .. MaxSize + 1] :
        u.buf_len \in {u.size, u.size + 1}}

InitPacketiser ==
    /\ Rp2040HostController_new
    /\ NetifIdle
    /\ delivered = 0
    /\ arming = NoArming
    /\ polling = NoPolling
    /\ irq_at = NoIrq
    /\ pipe_wakers = {}
    /\ unit \in Units
    /\ \E kind \in {"In", "Out"} :
        /\ unit_pk =
            [p |-> IF kind = "In"
                   THEN InPacketiser_new(unit.size, unit.packet_size)
                   ELSE OutPacketiser_new(unit.size, unit.packet_size,
                                          unit.buf_len),
             bc |-> BcZero, panic |-> FALSE]
        /\ unit_dp = IF kind = "In" THEN InDepacketiser_new(unit.size)
                     ELSE OutDepacketiser_new
    /\ unit_packets = <<>>

\* packetiser.prepare(reg): a packet that next_packet returns is recorded,
\* with the half and the pid it is armed with (armed is false when prepare
\* panics on it)
unit_prepare ==
    LET h == half_of(unit_pk.p.next_prep)
        np == next_packet(unit_pk.p)
        s == prepare(unit_pk)
    IN  /\ unit_pk.p.kind # "none"
        /\ ~unit_pk.panic
        /\ unit_pk' = s
        /\ unit_packets' =
            IF ~unit_pk.bc[h].available /\ np.some
            THEN Append(unit_packets,
                        [len |-> np.len, last |-> np.last, half |-> h,
                         pid |-> s.bc[h].pid, armed |-> ~s.panic])
            ELSE unit_packets
        /\ UNCHANGED <<unit, unit_dp, ct_vars, hw_vars, ip_vars,
                   poll_vars, dd_vars, ni_vars, aux_vars>>

\* the peripheral completes an armed half: an inbound half comes back full
unit_complete(h) ==
    /\ unit_pk.bc[h].available
    /\ ~unit_pk.panic
    /\ unit_pk' = [unit_pk EXCEPT !.bc[h].available = FALSE,
                                  !.bc[h].full = (unit_pk.p.kind = "In")]
    /\ UNCHANGED <<unit, unit_packets, unit_dp, ct_vars, hw_vars, ip_vars,
                   poll_vars, dd_vars, ni_vars, aux_vars>>

\* the lengths a buffer-control half can report beyond the packet size
MaxReport == MaxPacketSize + 1

\* the values of the buffer-control register that retire can read
RegValues ==
    [{0, 1} -> [available : {FALSE}, full : BOOLEAN, pid : {FALSE},
                last : {FALSE}, length : 0 .. MaxReport]]

\* depacketiser.retire(reg)
unit_retire(reg) ==
    /\ unit_dp.kind # "none"
    /\ unit_dp' = retire(unit_dp, reg)
    /\ UNCHANGED <<unit, unit_pk, unit_packets, ct_vars, hw_vars, ip_vars,
                   poll_vars, dd_vars, ni_vars, aux_vars>>

NextPacketiser ==
    \/ unit_prepare
    \/ \E h \in {0, 1} : unit_complete(h)
    \/ \E reg \in RegValues : unit_retire(reg)

SpecPacketiser == InitPacketiser /\ [][NextPacketiser]_vars

----------------------------------------------------------------------------
(* Specification of the data toggles: the packetiser of a data stage of the
   control pipe on its own, next to one single-endpoint pipe and one
   endpoint of a multiplexed pipe that are polled *)

ToggleArgs == PipeArgs({1}, {8})

NextToggle ==
    \/ unit_prepare
    \/ \E h \in {0, 1} : unit_complete(h)
    \/ \E a \in ToggleArgs : alloc_interrupt_pipe(1, a)
    \/ drop_interrupt_pipe(1)
    \/ multi_interrupt_pipe
    \/ \E a \in ToggleArgs : multi_pipes = {} /\ try_add(a)
    \/ Rp2040InterruptPipe_poll(1)
    \/ Rp2040MultiInterruptPipe_poll
    \/ \E n \in 1 .. BulkPoolSize : hw_interrupt_packet(n, 8)
    \/ on_irq

\* data stages of up to MaxLen + 1 bytes
InitToggle == InitPacketiser /\ unit.size <= MaxLen + 1

SpecToggle == InitToggle /\ [][NextToggle]_vars

----------------------------------------------------------------------------
(* Specification of the interrupt entry point: one control transfer, one  *)
(* interrupt pipe and one device-detect stream, with a handler that the   *)
(* platform also enters when no enabled source is raised                   *)

\* one byte inbound
IrqArgs == {a \in CallArgs : a.dir = "In" /\ a.wLength = 1}

NextIrq ==
    \/ \E a \in IrqArgs : control_transfer(1, a)
    \/ send_setup_poll(1)
    \/ control_transfer_inner(1)
    \/ hw_setup_complete
    \/ \E f \in CallFlags : hw_raise(f)
    \/ hw_in_packet(1)
    \/ \E a \in ToggleArgs : alloc_interrupt_pipe(1, a)
    \/ Rp2040InterruptPipe_poll(1)
    \/ hw_interrupt_packet(1, 8)
    \/ device_detect(1)
    \/ poll_next(1)
    \/ \E sp \in {0, 2} : hw_conn_dis(sp)
    \/ on_irq
    \/ on_irq_spurious

SpecIrq == Init /\ [][NextIrq]_vars

----------------------------------------------------------------------------
(* Specification of one inbound transfer of eight full packets: the       *)
(* engine against a device that delivers every byte asked for, and the    *)
(* in-packetiser of the same request on its own, its packets recorded     *)

\* control_transfer(.., 64, SetupPacket { wLength: 512 }, In(buf)) with a
\* buffer of 512 bytes
ReadArgs ==
    [dir |-> "In", wLength |-> 512, buf_len |-> 512, packet_size |-> 64]

InitRead ==
    /\ Rp2040HostController_new
    /\ NetifIdle
    /\ delivered = 0
    /\ arming = NoArming
    /\ polling = NoPolling
    /\ irq_at = NoIrq
    /\ pipe_wakers = {}
    /\ unit = [size |-> ReadArgs.wLength,
               packet_size |-> ReadArgs.packet_size,
               buf_len |-> ReadArgs.buf_len]
    /\ unit_pk = [p |-> InPacketiser_new(unit.size, unit.packet_size),
                  bc |-> BcZero, panic |-> FALSE]
    /\ unit_dp = InDepacketiser_new(unit.size)
    /\ unit_packets = <<>>

\* the device answers an IN token with as many bytes as the half takes
hw_in_whole == hw_in_packet(bc[hw_half].length)

NextRead ==
    \/ control_transfer(1, ReadArgs)
    \/ send_setup_poll(1)
    \/ control_transfer_inner(1)
    \/ hw_setup_complete
    \/ hw_in_whole
    \/ on_irq
    \/ unit_prepare
    \/ \E h \in {0, 1} : unit_complete(h)

SpecRead == InitRead /\ [][NextRead]_vars

----------------------------------------------------------------------------
(* Specification of one inbound transfer whose bytes are counted as the   *)
(* device sends them, short packets included                               *)

\* inbound transfers of up to three packets and a zero-length one, into a
\* buffer of wLength bytes
CountArgs ==
    {[dir |-> "In", wLength |-> w, buf_len |-> w, packet_size |-> ps] :
        w \in 0 .. MaxLen + MaxPacketSize, ps \in 1 .. MaxPacketSize}

NextCount ==
    \/ \E a \in CountArgs :
           result[1] = NoResult /\ delivered = 0 /\ control_transfer(1, a)
    \/ send_setup_poll(1)
    \/ control_transfer_inner(1)
    \/ hw_setup_complete
    \/ \E n \in 0 .. MaxPacketSize : hw_in_counted(n)
    \/ on_irq

SpecCount == Init /\ [][NextCount]_vars

----------------------------------------------------------------------------
(* cotton-netif: get_interfaces (cotton-netif/src/getifaddrs.rs) *)

\* interface names: "eth0" is [base |-> "eth0", alias |-> ""] and
\* "eth0:1" is [base |-> "eth0", alias |-> "1"]
InterfaceNames == [base : {"eth0", "lo"}, alias : {"", "1"}]

\* what an entry of getifaddrs carries: no address, an IPv4 or an IPv6
\* address with its netmask, or an address of another family
AddressKinds == {"none", "v4", "v6", "other"}

InterfaceAddresses == [interface_name : InterfaceNames, address : AddressKinds]

\* the lists getifaddrs returns, up to MaxAddrs entries
AddrLists ==
    UNION {[1 .. n -> InterfaceAddresses] : n \in 0 .. MaxAddrs}

\* a get_interfaces that keeps the alias in the name
interface_name_whole(name) == name

\* interface_name.split_once(":"): the prefix, or the name without colon
interface_name_prefix(name) == [name EXCEPT !.alias = ""]

NewLink(index, name) ==
    [kind |-> "NewLink", index |-> index, name |-> name, address |-> "none"]

NewAddr(index, address) ==
    [kind |-> "NewAddr", index |-> index,
     name |-> [base |-> "", alias |-> ""], address |-> address]

\* one turn of `for ifaddr in addrs`
get_interfaces_loop ==
    LET ifaddr == ni_addrs[ni_pos]
        name == interface_name_prefix(ifaddr.interface_name)
        vacant == name \notin DOMAIN ni_index_map
        index == IF vacant THEN ni_next_index ELSE ni_index_map[name]
        links == IF vacant THEN <<NewLink(index, name)>> ELSE <<>>
        addresses == IF ifaddr.address \in {"v4", "v6"}
                     THEN <<NewAddr(index, ifaddr.address)>> ELSE <<>>
    IN  /\ ni_pos <= Len(ni_addrs)
        /\ ni_pos' = ni_pos + 1
        /\ ni_next_index' = IF vacant THEN ni_next_index + 1
                            ELSE ni_next_index
        /\ ni_index_map' = IF vacant THEN (name :> index) @@ ni_index_map
                           ELSE ni_index_map
        /\ ni_events' = ni_events \o links \o addresses
        /\ UNCHANGED <<ni_addrs, ct_vars, hw_vars, ip_vars, unit_vars,
                       poll_vars, dd_vars, aux_vars>>

\* get_interfaces is called with the list getifaddrs returned
InitNetif ==
    /\ Rp2040HostController_new
    /\ unit = NoUnit
    /\ unit_pk = [p |-> NoPacketiser, bc |-> BcZero, panic |-> FALSE]
    /\ unit_packets = <<>>
    /\ unit_dp = NoDepacketiser
    /\ delivered = 0
    /\ arming = NoArming
    /\ polling = NoPolling
    /\ irq_at = NoIrq
    /\ pipe_wakers = {}
    /\ ni_addrs \in AddrLists
    /\ ni_pos = 1
    /\ ni_next_index = 1
    /\ ni_index_map = <<>>
    /\ ni_events = <<>>

NextNetif == get_interfaces_loop

SpecNetif == InitNetif /\ [][NextNetif]_vars

----------------------------------------------------------------------------
(* Properties of the pools *)

\* the tasks whose control_transfer holds the control slot
InFlight == {t \in Tasks : pipe[t] # NoPipe}

\* C1: at most one control transfer is in flight at any moment: every task
\* past alloc_pipe holds the control slot, and no two tasks hold it
C1_OneControlTransferInFlight ==
    /\ Cardinality(InFlight) <= 1
    /\ \A t \in Tasks : pc[t] \in Stages \cup {"panicked"} => t \in InFlight
    /\ \A t \in InFlight : setup_packet.by = t

\* a transfer is in its data stage while another caller waits for the slot
C1_Witness ==
    \E t, u \in Tasks : pc[t] \in {"data_in", "data_out"} /\ pc[u] = "alloc"

\* the hardware pipes held through single interrupt pipes
SinglePipes == {ip_pipe[u].n : u \in {v \in PipeUsers : ip_pc[v] = "held"}}

BulkFull == Cardinality(bulk_pipes) = BulkPoolSize

\* the callers suspended in bulk_pipes.alloc()
BulkWaiters == {u \in PipeUsers : ip_pc[u] = "alloc"}

C4_ControlSlotReleased ==
    /\ \A t \in Tasks : pc[t] \in {"idle", "alloc"} => pipe[t] = NoPipe
    /\ control_pipes = {pipe[t] : t \in InFlight}

\* one task returned Ok, the other an error, and the slot is free
C4_Witness ==
    /\ control_pipes = {}
    /\ \E t, u \in Tasks : /\ pc[t] = "idle" /\ result[t].kind = "Ok"
                           /\ pc[u] = "idle" /\ result[u].kind = "Err"

----------------------------------------------------------------------------
(* Properties of the wake-ups of a control transfer *)

\* the step is a poll of task t's await on the control endpoint
WakeUp(t) == send_setup_poll(t) \/ control_transfer_inner(t)

\* the poll of this state finds a wake-up condition
Ready == Rp2040ControlEndpoint_poll(Hw).ready

\* the errors of the status flags, in the order the specification gives
ErrorOrder ==
    <<"data_seq_error", "stall_rec", "rx_overflow", "rx_timeout",
      "bit_stuff_error", "crc_error">>

ErrorName ==
    [data_seq_error |-> "DataSeqError", stall_rec |-> "Stall",
     rx_overflow |-> "Overflow", rx_timeout |-> "Timeout",
     bit_stuff_error |-> "BitStuffError", crc_error |-> "CrcError"]

FirstError(status) ==
    LET i == CHOOSE k \in 1 .. Len(ErrorOrder) :
                 /\ ErrorOrder[k] \in status
                 /\ \A j \in 1 .. k - 1 : ErrorOrder[j] \notin status
    IN  ErrorName[ErrorOrder[i]]

StatusErrors == {ErrorName[f] : f \in DOMAIN ErrorName}

\* C5: a wake-up in the SETUP or data stage with the stall flag set, and
\* neither transfer-complete nor data-sequence-error, makes control_transfer
\* return Err(Stall), and no later stage is started
C5_StallReturnsStall ==
    [][\A t \in Tasks :
         /\ WakeUp(t)
         /\ pc[t] \in {"send_setup", "data_in", "data_out"}
         /\ "stall_rec" \in sie_status
         /\ "trans_complete" \notin sie_status
         /\ "data_seq_error" \notin sie_status
         => /\ result'[t] = Err("Stall")
            /\ pc'[t] = "idle"
            /\ sie_ctrl' = sie_ctrl
            /\ trans' = trans
            /\ epx_control' = epx_control
            /\ bc' = bc]_vars

\* an inbound transfer returned Err(Stall) from its data stage
C5_Witness ==
    /\ pc[1] = "idle"
    /\ result[1] = Err("Stall")
    /\ sie_ctrl.receive_data

\* C6: on a wake-up the error flags are checked in the order data-sequence,
\* stall, overflow, timeout, bit-stuff, CRC, and the first one set is the
\* error returned; with transfer-complete set no such error is raised; with
\* no flag set the operation stays at its await
C6_ErrorPrecedence ==
    [][\A t \in Tasks :
         WakeUp(t) /\ Ready
         => IF "trans_complete" \in sie_status
            THEN result'[t].err \notin StatusErrors
            ELSE IF sie_status \cap ErrorFlags # {}
            THEN result'[t] = Err(FirstError(sie_status)) /\ pc'[t] = "idle"
            ELSE pc'[t] = pc[t] /\ result'[t] = NoResult]_vars

\* a poll in the data stage is about to see overflow and timeout together
C6_Witness ==
    /\ pc[1] \in {"data_in", "data_out"}
    /\ 1 \in runnable
    /\ task_runs
    /\ sie_status = {"rx_overflow", "rx_timeout"}

\* C8: a status with NAK as its only condition is never surfaced: the
\* operation stays at its await with no result
C8_NakNotSurfaced ==
    [][\A t \in Tasks :
         /\ WakeUp(t)
         /\ "nak_rec" \in sie_status
         /\ sie_status \cap (ErrorFlags \cup {"trans_complete"}) = {}
         => pc'[t] = pc[t] /\ result'[t] = NoResult]_vars

\* a poll in the data stage is about to find a buffer done and NAK alone in
\* the status
C8_Witness ==
    /\ pc[1] \in {"data_in", "data_out"}
    /\ 1 \in runnable
    /\ task_runs
    /\ Ready
    /\ sie_status = {"nak_rec"}

\* the control transfer of task t is suspended: it waits for a wake-up
Suspended(t) == pc[t] \in Stages /\ t \notin runnable

\* the interrupt bit of a status flag
IntOf(f) == CHOOSE i \in DOMAIN IntSource : IntSource[i] = f

\* C7: an error flag raised while a control transfer is suspended, with its
\* interrupt enabled so that on_irq runs for it, leads to the transfer
\* returning an error, unless the transaction completes first
C7_ErrorFlagLeadsToErr ==
    \A f \in ErrorFlags :
        (/\ Suspended(1)
         /\ f \in sie_status
         /\ IntOf(f) \in inte
         /\ "trans_complete" \notin sie_status)
            ~> (\/ pc[1] = "idle" /\ result[1].kind = "Err"
                \/ "trans_complete" \in sie_status)

\* the data stage is suspended with the CRC flag raised, its interrupt taken
\* and disabled, and nobody woken
C7_Witness ==
    /\ Suspended(1)
    /\ pc[1] = "data_in"
    /\ "crc_error" \in sie_status
    /\ "error_crc" \notin inte
    /\ ~irq_pending
    /\ waker0 = 1

----------------------------------------------------------------------------
(* Properties of the arguments and the result of control_transfer *)

\* the buffer of the call of task t is shorter than the transfer asked for
BufferTooSmall(t) ==
    args[t].dir \in {"In", "Out"} /\ args[t].buf_len < args[t].wLength

\* C9: a buffer shorter than wLength is refused before any register is
\* written and before the SETUP transaction is started: such a call is at
\* no stage of the engine
C9_BufferCheckedBeforeHardware ==
    \A t \in Tasks : BufferTooSmall(t) => pc[t] \notin Stages

\* a call with a short buffer has run its SETUP transaction and is refused
\* on the completion of it
C9_Witness ==
    /\ BufferTooSmall(1)
    /\ pc[1] = "send_setup"
    /\ 1 \in runnable
    /\ task_runs
    /\ "trans_complete" \in sie_status

\* C10: on success control_transfer returns the bytes of the data stage: at
\* most wLength bytes copied for In, wLength for Out, zero for None
C10_ReturnsBytesTransferred ==
    [][\A t \in Tasks :
         result'[t].kind = "Ok" /\ result[t].kind # "Ok"
         => CASE args[t].dir = "In" -> result'[t].n <= args[t].wLength
              [] args[t].dir = "Out" -> result'[t].n = args[t].wLength
              [] OTHER -> result'[t].n = 0]_vars

\* an outbound transfer of one byte is in its status stage, about to succeed
C10_Witness ==
    /\ pc[1] = "status"
    /\ args[1].dir = "Out"
    /\ args[1].wLength = 1
    /\ 1 \in runnable
    /\ task_runs
    /\ "trans_complete" \in sie_status

----------------------------------------------------------------------------
(* Properties of the stages of a control transfer *)

\* C11: a successful control transfer goes through SendSetup, the optional
\* data stage and the status stage in that order: control_transfer returns
\* Ok only from a completed status stage, which runs in the direction
\* opposite to the data stage (OUT after IN data, else IN)
C11_OkOnlyAfterStatusStage ==
    [][\A t \in Tasks :
         result'[t].kind = "Ok" /\ result[t].kind # "Ok"
         => /\ pc[t] = "status"
            /\ IF args[t].dir = "In" THEN sie_ctrl.send_data
               ELSE sie_ctrl.receive_data]_vars

\* an inbound transfer is in its data stage with the transaction complete
C11_Witness ==
    /\ pc[1] = "data_in"
    /\ args[1].dir = "In"
    /\ 1 \in runnable
    /\ task_runs
    /\ "trans_complete" \in sie_status

----------------------------------------------------------------------------
(* Properties of the packetisers and depacketisers *)

RECURSIVE SumLen(_)
SumLen(q) == IF q = <<>> THEN 0 ELSE Head(q).len + SumLen(Tail(q))

\* next_packet returns nothing more: the packetiser is exhausted, or
\* prepare has panicked
Exhausted == unit_pk.panic \/ ~next_packet(unit_pk.p).some

\* C12: the lengths of the packets of an out-packetiser sum to size once it
\* returns nothing (and to size less the bytes that remain before), and
\* every packet before the final data-bearing one has length packet_size
C12_OutLengthsSumToSize ==
    unit_pk.p.kind = "Out" =>
        /\ SumLen(unit_packets) + unit_pk.p.remain = unit.size
        /\ Exhausted => SumLen(unit_packets) = unit.size
        /\ \A i, j \in 1 .. Len(unit_packets) :
               i < j /\ unit_packets[j].len > 0
               => unit_packets[i].len = unit.packet_size

\* an exhausted out-packetiser that has produced two full packets and a
\* shorter one
C12_Witness ==
    /\ unit_pk.p.kind = "Out"
    /\ Exhausted
    /\ Len(unit_packets) = 3
    /\ unit_packets[3].len \in 1 .. unit.packet_size - 1

\* the positions of the zero-length packets among the packets returned
ZeroLength == {i \in 1 .. Len(unit_packets) : unit_packets[i].len = 0}

\* C13 as stated: an exhausted packetiser, In or Out, has returned a
\* zero-length packet if and only if size > 0 and size mod packet_size = 0
\* (none when size is 0), and never more than one
C13_ZeroLengthIffPositiveMultiple ==
    unit_pk.p.kind # "none" =>
        /\ Cardinality(ZeroLength) <= 1
        /\ Exhausted =>
            (ZeroLength # {}
                <=> unit.size > 0 /\ unit.size % unit.packet_size = 0)

\* C13 as amended: the packets returned by next_packet of a packetiser, In
\* or Out, end with a zero-length packet if and only if size mod
\* packet_size = 0, which includes size 0, where it is the only packet;
\* never more than one is returned and none before the data is exhausted
C13_ZeroLengthIffMultiple ==
    unit_pk.p.kind # "none" =>
        /\ Cardinality(ZeroLength) <= 1
        /\ \A i \in ZeroLength : i = Len(unit_packets) /\ Exhausted
        /\ Exhausted =>
            (ZeroLength # {} <=> unit.size % unit.packet_size = 0)
        /\ Exhausted /\ unit.size = 0 => Len(unit_packets) = 1

\* a packetiser of size 0 has returned its only packet, of length zero
C13_Witness ==
    /\ unit_pk.p.kind = "In"
    /\ unit.size = 0
    /\ Exhausted
    /\ ZeroLength = {1}

\* C14: whatever lengths the register reports to retire, the running total
\* of an InDepacketiser never exceeds size, never decreases, and
\* total + remaining = size after every retire
C14_TotalNeverExceedsSize ==
    /\ [](unit_dp.kind = "In" =>
            /\ total(unit_dp) <= unit.size
            /\ unit_dp.remain >= 0
            /\ total(unit_dp) + unit_dp.remain = unit.size)
    /\ [][unit_dp.kind = "In" => total(unit_dp') >= total(unit_dp)]_vars

\* an InDepacketiser of size 1 has retired half 0 and counted its one byte,
\* from a report of 1 .. MaxReport bytes
C14_Witness ==
    /\ unit_dp.kind = "In"
    /\ unit.size = 1
    /\ total(unit_dp) = 1
    /\ unit_dp.next_retire = 1

----------------------------------------------------------------------------
(* Properties of the data toggles *)

\* the pids of the packets armed by the packetiser alternate, from `first`
ControlToggleFrom(first) ==
    \A i \in 1 .. Len(unit_packets) :
        unit_packets[i].armed
        => unit_packets[i].pid = IF i % 2 = 1 THEN first ELSE ~first

\* a packetiser arms a further packet only when the one before it has
\* completed
ControlToggleOnCompletion ==
    Len(unit_packets') > Len(unit_packets) /\ Len(unit_packets) >= 1
    => ~unit_pk.bc[unit_packets[Len(unit_packets)].half].available

\* on every interrupt pipe the pid is false when the pipe is allocated,
\* changes only in a step that arms again a buffer that was full, and
\* every such step inverts it
InterruptToggle ==
    \A n \in 1 .. BulkPoolSize :
        n \in DOMAIN int_ep'
        => IF n - 1 \in bulk_pipes' \ bulk_pipes
           THEN ~int_ep'[n].pid /\ int_ep'[n].available
           ELSE /\ n \in DOMAIN int_ep
                /\ int_ep'[n].pid # int_ep[n].pid
                   => int_ep[n].full /\ int_ep'[n].available
                /\ int_ep[n].full /\ ~int_ep'[n].full
                   => int_ep'[n].pid = ~int_ep[n].pid

\* C15 as stated: on any one pipe, the control pipe in a data stage
\* included, the pid of consecutive armed packets alternates false, true,
\* false, ... starting with false, and advances only when a packet has
\* completed
C15_ToggleFalseFirstOnEveryPipe ==
    /\ []ControlToggleFrom(FALSE)
    /\ [][ControlToggleOnCompletion]_vars
    /\ [][InterruptToggle]_vars

\* C15 as amended: on an interrupt pipe (single-endpoint, or one slot of a
\* multiplexed pipe) the pid of consecutive armed packets alternates false,
\* true, ... starting with false and advances only when a packet has
\* completed; on the control pipe in a data stage the pid follows the
\* buffer half, so consecutive armed packets alternate true, false, ...
\* starting with true
C15_ToggleAlternates ==
    /\ [](/\ ControlToggleFrom(TRUE)
          /\ \A i \in 1 .. Len(unit_packets) :
                 unit_packets[i].armed
                 => unit_packets[i].pid = (unit_packets[i].half = 0))
    /\ [][InterruptToggle]_vars

\* three packets armed on the control pipe, and a packet taken from the
\* single-endpoint pipe and from a slot of the multiplexed pipe
C15_Witness ==
    /\ Len(unit_packets) >= 3
    /\ unit_packets[3].armed
    /\ ip_pc[1] = "held"
    /\ ip_pipe[1].data_toggle
    /\ int_ep[ip_pipe[1].n].pid
    /\ \E i \in multi_pipes :
           pipe_info[i + 1].data_toggle /\ int_ep[i + 1].pid

----------------------------------------------------------------------------
(* Properties of the interrupt pipes *)

\* C16: with no shared slot free, try_add returns Err(AllPipesInUse) in the
\* same step, without suspending, and leaves the owned slots, every PipeInfo
\* entry and every register and buffer-control word as they were
C16_TryAddFullNoSideEffects ==
    [][\A a \in PoolPipeArgs :
         BulkFull /\ try_add(a)
         => /\ try_add_result' = "AllPipesInUse"
            /\ UNCHANGED <<bulk_pipes, multi_pipes, pipe_info, int_ep,
                           ip_pc, ip_pipe, hw_vars>>]_vars

\* try_add has failed on the full pool while the multiplexed pipe owns slots
C16_Witness ==
    /\ BulkFull
    /\ multi_live
    /\ multi_pipes # {}
    /\ try_add_result = "AllPipesInUse"

\* the buffer-control word of the pipe held by user 1
Reg1 == int_ep[ip_pipe[1].n]

\* C17: a poll of Rp2040InterruptPipe that finds its buffer full returns a
\* packet of size min(reported length, 64), inverts the data toggle once,
\* and leaves the buffer armed again: full clear, available set, pid the
\* new toggle, length max_packet_size
C17_PollFullReturnsPacket ==
    [][Rp2040InterruptPipe_poll(1) /\ Reg1.full
       => /\ poll_result'.some
          /\ poll_result'.size = Min(Reg1.length, 64)
          /\ poll_result'.size <= 64
          /\ ip_pipe'[1].data_toggle = ~ip_pipe[1].data_toggle
          /\ ~Reg1'.full
          /\ Reg1'.available
          /\ Reg1'.pid = ip_pipe'[1].data_toggle
          /\ Reg1'.length = ip_pipe[1].max_packet_size]_vars

\* a packet reported longer than 64 bytes has been returned as 64 bytes and
\* the buffer is armed again with the toggle inverted
C17_Witness ==
    /\ ip_pc[1] = "held"
    /\ poll_result.some
    /\ poll_result.address = 0
    /\ poll_result.size = 64
    /\ ip_pipe[1].data_toggle
    /\ ip_pipe[1].max_packet_size > 64
    /\ Reg1.available
    /\ Reg1.pid

\* C18: a poll of Rp2040InterruptPipe that finds its buffer not full returns
\* None, leaves the data toggle and every buffer-control word unchanged,
\* and enables the buffer-status interrupt and the pipe's own bit of
\* int_ep_ctrl, no bit of another pipe
C18_PollEmptyEnablesOwnSource ==
    [][Rp2040InterruptPipe_poll(1) /\ ~Reg1.full
       => /\ ~poll_result'.some
          /\ UNCHANGED <<ip_pipe, int_ep, pipe_info>>
          /\ inte' = inte \cup {"buff_status"}
          /\ int_ep_ctrl' = int_ep_ctrl \cup {ip_pipe[1].n}]_vars

\* the single pipe has enabled its source while the bit of a slot of the
\* multiplexed pipe is clear
C18_Witness ==
    /\ ip_pc[1] = "held"
    /\ ~Reg1.full
    /\ ~poll_result.some
    /\ "buff_status" \in inte
    /\ ip_pipe[1].n \in int_ep_ctrl
    /\ \E i \in multi_pipes : i + 1 \notin int_ep_ctrl

\* the hardware pipes of the owned slots that are full, and the lowest
FullPipes == {i + 1 : i \in full_owned}
LowestFull == CHOOSE p \in FullPipes : \A q \in FullPipes : p <= q

\* C19: a poll of Rp2040MultiInterruptPipe returns a packet if and only if
\* an owned slot is full; the packet is taken from the lowest full owned
\* slot and carries the address and endpoint that try_add programmed for
\* that slot (host_addr_endp)
C19_MultiPollLowestFullSlot ==
    [][Rp2040MultiInterruptPipe_poll
       => /\ poll_result'.some <=> FullPipes # {}
          /\ FullPipes # {}
             => /\ poll_result'.address = int_ep[LowestFull].address
                /\ poll_result'.endpoint = int_ep[LowestFull].endpoint
                /\ poll_result'.size = Min(int_ep[LowestFull].length, 64)
                /\ ~int_ep'[LowestFull].full]_vars

\* of two full slots of different devices the lower has been returned and
\* the higher is still full
C19_Witness ==
    /\ multi_live
    /\ poll_result.some
    /\ \E i, j \in multi_pipes :
        /\ i < j
        /\ ~int_ep[i + 1].full
        /\ pipe_info[i + 1].data_toggle
        /\ int_ep[j + 1].full
        /\ int_ep[i + 1].address # int_ep[j + 1].address
        /\ poll_result.address = int_ep[i + 1].address

\* C20: a poll of Rp2040MultiInterruptPipe that returns a packet arms and
\* toggles only the slot it returned, every other buffer-control word and
\* data toggle staying as it was, and writes no interrupt enable; the
\* sources of all owned slots are enabled by the polls that find no slot
\* full, and only by them
C20_MultiPollTouchesOnlyReturnedSlot ==
    [][Rp2040MultiInterruptPipe_poll
       => /\ poll_result'.some
             => /\ \A q \in DOMAIN int_ep \ {LowestFull} :
                       int_ep'[q] = int_ep[q]
                /\ \A q \in DOMAIN pipe_info \ {LowestFull} :
                       pipe_info'[q] = pipe_info[q]
                /\ pipe_info'[LowestFull].data_toggle
                       = ~pipe_info[LowestFull].data_toggle
                /\ int_ep'[LowestFull].available
                /\ int_ep'[LowestFull].pid
                       = pipe_info'[LowestFull].data_toggle
                /\ UNCHANGED <<ip_pipe, inte, int_ep_ctrl, stall_nak>>
          /\ ~poll_result'.some
             => /\ FullPipes = {}
                /\ "buff_status" \in inte'
                /\ {i + 1 : i \in multi_pipes} \subseteq int_ep_ctrl'
                /\ UNCHANGED <<int_ep, pipe_info, ip_pipe>>
          /\ <<inte, int_ep_ctrl>>' # <<inte, int_ep_ctrl>>
             => FullPipes = {}]_vars

\* a slot has been returned, toggled and armed again while another owned
\* slot is full, its toggle as try_add left it
C20_Witness ==
    /\ multi_live
    /\ poll_result.some
    /\ poll_result.address # 0
    /\ \E i, j \in multi_pipes :
        /\ int_ep[i + 1].available
        /\ int_ep[i + 1].pid
        /\ pipe_info[i + 1].data_toggle
        /\ int_ep[j + 1].full
        /\ ~pipe_info[j + 1].data_toggle

----------------------------------------------------------------------------
(* Properties of the device-detect stream *)

\* the DeviceStatus of the speed bits: 0, 1, otherwise
StatusOfSpeed ==
    IF speed = 0 THEN "Absent" ELSE IF speed = 1 THEN "Low1_5" ELSE "Full12"

\* C21: poll_next yields the status of the speed bits only when it differs
\* from the last value the stream yielded (Absent at first), and then that
\* value is the last yielded; when it does not differ poll_next returns
\* Pending with the connect/disconnect interrupt enabled.  self.status is
\* the last value yielded: between creation and drop it changes only in a
\* poll_next that yields it.
C21_EdgeTriggered ==
    [][\A s \in Streams :
           /\ poll_next(s) =>
                  /\ dd_result'[s] \in {"Pending", StatusOfSpeed}
                  /\ dd_result'[s] = StatusOfSpeed
                         <=> StatusOfSpeed # dd_status[s]
                  /\ dd_result'[s] = StatusOfSpeed
                         => dd_status'[s] = StatusOfSpeed
                  /\ dd_result'[s] = "Pending"
                         => /\ "host_conn_dis" \in inte'
                            /\ dd_status'[s] = dd_status[s]
           /\ device_detect(s) => dd_status'[s] = "Absent"
           /\ /\ dd_status[s] # NoStatus
              /\ dd_status'[s] \notin {NoStatus, dd_status[s]}
              => poll_next(s) /\ dd_result'[s] = dd_status'[s]]_vars

\* a stream that yielded Present(Full) was polled again with the device
\* still there and returned Pending, while another stream yielded
C21_Witness ==
    /\ dd_result[1] = "Pending"
    /\ dd_status[1] = "Full12"
    /\ speed = 2
    /\ dd_result[2] = "Full12"
    /\ "host_conn_dis" \in inte

\* a stream exists and its poll_next has not run yet
Fresh(s) == dd_status[s] # NoStatus /\ dd_result[s] = NoStatus

\* C22: every device_detect() returns a stream whose baseline is Absent,
\* whatever the other streams yielded, so the first poll_next of a stream
\* made while a device is connected yields Present(speed); and poll_next
\* returns Pending or a status, never the end of the stream.
C22_FreshStreamStartsAbsent ==
    [][\A s \in Streams :
           /\ device_detect(s) => dd_status'[s] = "Absent" /\ Fresh(s)'
           /\ poll_next(s) /\ Fresh(s) /\ speed # 0
              => dd_result'[s] = StatusOfSpeed /\ dd_result'[s] # "Absent"
           /\ poll_next(s)
              => dd_result'[s] \in {"Pending", "Absent", "Low1_5", "Full12"}
       ]_vars

\* stream 1 is waiting with a low-speed device as its last value, and
\* stream 2, subscribed later, yielded the same device
C22_Witness ==
    /\ dd_status[1] = "Low1_5"
    /\ dd_result[1] = "Pending"
    /\ dd_result[2] = "Low1_5"
    /\ speed = 1

----------------------------------------------------------------------------
(* Properties of the interrupt entry point *)

\* C23: on_irq entered while no enabled interrupt source is raised wakes no
\* waker and leaves the interrupt enables, the SIE status and every
\* buffer-control word as they were; it changes nothing at all, so that
\* entering it twice is entering it once.
C23_SpuriousIrqChangesNothing ==
    [][on_irq_spurious
           => /\ UNCHANGED <<waker0, runnable, device_waker>>
              /\ UNCHANGED <<inte, sie_status, buff_status>>
              /\ UNCHANGED <<bc, int_ep>>
              /\ UNCHANGED vars]_vars

\* no enabled source is raised, while a flag whose source the handler
\* disabled earlier is still raised and a task waits on the control endpoint
C23_Witness ==
    /\ ~irq_pending
    /\ intr_of(sie_status, buff_status) # {}
    /\ waker0 = 1
    /\ bc # BcZero

\* C24: for every interrupt status, on_irq changes no buffer-control word
\* of the control endpoint or of an interrupt endpoint, no packetiser or
\* depacketiser, no data toggle and no pipe pool.  (The handler steps of
\* the model move no buffer contents: these are copied by prepare and
\* retire, which run in the tasks.)
C24_IrqLeavesBuffersAndPipes ==
    [][on_irq \/ on_irq_spurious
           => /\ UNCHANGED <<bc, hw_half, epx_control, int_ep>>
              /\ UNCHANGED <<packetiser, depacketiser, unit_vars>>
              /\ UNCHANGED <<ip_pipe, pipe_info>>
              /\ UNCHANGED <<control_pipes, bulk_pipes, multi_pipes>>
       ]_vars

\* the handler has disabled the source of a flag that is still raised,
\* while a data stage is in progress with a buffer handed to the
\* peripheral and an interrupt pipe holds a slot of the shared pool
C24_Witness ==
    /\ \E i \in DOMAIN IntSource :
           IntSource[i] \in sie_status /\ i \notin inte
    /\ pc[1] = "data_in"
    /\ depacketiser[1].kind # "none"
    /\ \E h \in {0, 1} : bc[h].available
    /\ control_pipes # {}
    /\ bulk_pipes # {}
    /\ ip_pipe[1].n # 0

\* the raw sources raised in the state the handler leaves, which are those
\* of its final read of regs.ints()
StillRaised == ints_of(sie_status, buff_status, conn_dis)

\* C25: when on_irq returns, no source still raised at its final read is
\* enabled (enable AND status is zero), and the handler has disabled those
\* sources only: every other enable bit is as it was.
C25_IrqDisablesWhatStaysRaised ==
    [][on_irq \/ on_irq_spurious
           => /\ StillRaised' \cap inte' = {}
              /\ inte' = inte \ StillRaised']_vars

\* the handler has returned with the completion flag still raised: its
\* source is disabled, that of connection changes is still enabled
C25_Witness ==
    /\ "trans_complete" \in sie_status
    /\ "trans_complete" \notin inte
    /\ "host_conn_dis" \in inte
    /\ "stall" \in inte
    /\ ~irq_pending

----------------------------------------------------------------------------
(* Properties of whole control transfers *)

\* the caller is in a transfer without data phase
NoDataPhase(t) == args[t].dir = "None" /\ pc[t] \in Stages

\* C26: a control transfer with wLength = 0 and no data phase goes from
\* SendSetup to one inbound status stage and from there returns: it has no
\* data stage, it arms one buffer half, every buffer it arms and every
\* packet it receives has length zero, it copies no byte, and when it
\* succeeds the result is Ok(0).
C26_NoDataPhaseIsSetupThenStatus ==
    /\ [](\A t \in Tasks :
             NoDataPhase(t)
             => /\ pc[t] \in {"send_setup", "status"}
                /\ depacketiser[t].offset = 0
                /\ pc[t] = "status"
                   => /\ sie_ctrl.receive_data
                      /\ ~bc[1].available /\ ~bc[1].full
                      /\ \A h \in {0, 1} :
                             bc[h].available \/ bc[h].full
                             => bc[h].length = 0)
    /\ [][\A t \in Tasks :
             NoDataPhase(t)
             => /\ pc'[t] = "status" => pc[t] \in {"send_setup", "status"}
                /\ pc[t] = "status" => pc'[t] \in {"status", "idle"}
                /\ result'[t].kind = "Ok" /\ pc'[t] = "idle"
                   => pc[t] = "status" /\ result'[t] = Ok(0)]_vars

\* a transfer without data phase is in its status stage, the zero-length
\* packet has come in and the caller is about to return
C26_Witness ==
    /\ NoDataPhase(1)
    /\ pc[1] = "status"
    /\ bc[0].full
    /\ "trans_complete" \in sie_status
    /\ 1 \in runnable
    /\ task_runs

\* the packets of the in-packetiser so far are all full
AllFull ==
    \A i \in DOMAIN unit_packets :
        unit_packets[i].len = unit.packet_size /\ ~unit_packets[i].last

\* the packets the in-packetiser of 512 bytes in packets of 64 returns:
\* eight full ones, then one of length zero marked last
EightThenZero ==
    \A i \in DOMAIN unit_packets :
        /\ i <= 9
        /\ unit_packets[i].len = (IF i <= 8 THEN 64 ELSE 0)
        /\ unit_packets[i].last = (i = 9)

\* C27 as claimed: an inbound transfer of 512 bytes in packets of 64, from
\* a device that delivers every byte, has eight full packets and no
\* zero-length packet in its data stage, and reports 512 bytes.
C27_EightFullPacketsOnly ==
    /\ AllFull /\ Len(unit_packets) <= 8
    /\ pc[1] = "data_in"
       => \A h \in {0, 1} : bc[h].available => bc[h].length = 64
    /\ result[1].kind = "Ok" => result[1].n = 512

\* C27: an inbound transfer of 512 bytes in packets of 64, from a device
\* that delivers every byte, has eight full packets and then one buffer of
\* length zero, marked last, in its data stage; it returns after that
\* buffer has been armed, and reports 512 bytes.
C27_EightFullPacketsThenZeroLength ==
    /\ [](/\ EightThenZero
          /\ Exhausted => Len(unit_packets) = 9
          /\ pc[1] = "data_in"
             => \A h \in {0, 1} :
                    bc[h].available
                    => \/ bc[h].length = 64 /\ ~bc[h].last
                       \/ /\ bc[h].length = 0 /\ bc[h].last
                          /\ packetiser[1].remain = 0)
    /\ [][result'[1].kind = "Ok" /\ result[1].kind # "Ok"
             => /\ result'[1] = Ok(512)
                /\ ~next_packet(packetiser[1]).some]_vars

\* the in-packetiser has returned its nine packets, and the transfer has
\* returned Ok(512)
C27_Witness ==
    /\ Exhausted
    /\ Len(unit_packets) = 9
    /\ unit_packets[9].len = 0
    /\ result[1] = Ok(512)

----------------------------------------------------------------------------
(* Properties of get_interfaces *)

\* the interface an entry of getifaddrs belongs to: "eth0:1" is "eth0"
InterfaceOf(ifaddr) == [base |-> ifaddr.interface_name.base, alias |-> ""]

\* the positions of the NewLink events passed to the callback so far
Links == {i \in DOMAIN ni_events : ni_events[i].kind = "NewLink"}

\* C28: in the events get_interfaces passes to its callback, the NewLink of
\* an interface comes before every NewAddr that carries its index; every
\* interface name among the entries read (an alias counted as the name
\* before the colon) has exactly one NewLink, with an index no other
\* NewLink has; and every event is a NewLink or a NewAddr.
C28_NewLinkOnceAndFirst ==
    /\ \A j \in DOMAIN ni_events :
           ni_events[j].kind = "NewAddr"
           => \E i \in Links :
                  i < j /\ ni_events[i].index = ni_events[j].index
    /\ \A k \in 1 .. ni_pos - 1 :
           Cardinality({i \in Links :
                           ni_events[i].name = InterfaceOf(ni_addrs[k])})
               = 1
    /\ \A i \in Links :
           \E k \in 1 .. ni_pos - 1 :
               ni_events[i].name = InterfaceOf(ni_addrs[k])
    /\ \A i, j \in Links :
           i # j => ni_events[i].index # ni_events[j].index
    /\ \A i \in DOMAIN ni_events :
           ni_events[i].kind \in {"NewLink", "NewAddr"}

\* get_interfaces has gone through "eth0:1" with an address, "lo" and
\* "eth0" with an address: two NewLink and two NewAddr events
C28_Witness ==
    /\ ni_pos = MaxAddrs + 1
    /\ ni_addrs[1].interface_name = [base |-> "eth0", alias |-> "1"]
    /\ ni_addrs[1].address = "v4"
    /\ ni_addrs[2].interface_name.base = "lo"
    /\ ni_addrs[3].interface_name = [base |-> "eth0", alias |-> ""]
    /\ ni_addrs[3].address = "v6"
    /\ Cardinality(Links) = 2
    /\ Len(ni_events) >= 4

----------------------------------------------------------------------------
(* Properties of next_packet and prepare *)

\* prepare has just recorded a packet that next_packet returned
Packetised == Len(unit_packets') = Len(unit_packets) + 1

\* that packet
Produced == unit_packets'[Len(unit_packets')]

\* C29 as claimed: with the bytes that remain in (0, packet_size] the next
\* packet has those bytes and is marked last; with more than packet_size it
\* has packet_size bytes and is not marked last.
C29_LastWhenAtMostPacketSize ==
    [][Packetised
           => LET p == unit_pk.p
              IN  /\ 0 < p.remain /\ p.remain <= p.packet_size
                     => Produced.len = p.remain /\ Produced.last
                  /\ p.remain > p.packet_size
                     => Produced.len = p.packet_size /\ ~Produced.last
       ]_vars

\* C29: with the bytes that remain in (0, packet_size) the next packet has
\* those bytes and is marked last; with packet_size or more it has
\* packet_size bytes and is not marked last.
C29_LastWhenBelowPacketSize ==
    [][Packetised
           => LET p == unit_pk.p
              IN  /\ 0 < p.remain /\ p.remain < p.packet_size
                     => Produced.len = p.remain /\ Produced.last
                  /\ p.remain >= p.packet_size
                     => Produced.len = p.packet_size /\ ~Produced.last
       ]_vars

\* of four bytes in packets of two the second packet, which took all that
\* remained, has been returned, and it is not marked last
C29_Witness ==
    /\ unit.packet_size = 2
    /\ unit.size = 4
    /\ Len(unit_packets) = 2
    /\ unit_packets[2].len = 2
    /\ ~unit_packets[2].last
    /\ unit_pk.p.remain = 0

\* the half the packetiser turns to next
NextHalf == IF unit_pk.p.next_prep = 0 THEN 0 ELSE 1

\* C30: over prepare calls interleaved with completions by the peripheral,
\* a packetiser arms the halves in the order 0, 1, 0, 1, ..; it arms a half
\* only when the available bit of that half is clear; and a prepare that
\* finds the next half still available, or has no packet left, changes
\* neither the buffer-control word nor the packetiser's remaining count,
\* offset or next-half index.
C30_HalvesArmedInTurn ==
    /\ [](\A i \in DOMAIN unit_packets :
             unit_packets[i].armed => unit_packets[i].half = (i - 1) % 2)
    /\ [][unit_prepare
             => /\ Packetised /\ Produced.armed
                   => /\ ~unit_pk.bc[NextHalf].available
                      /\ unit_pk'.bc[NextHalf].available
                      /\ Produced.half = NextHalf
                      /\ unit_pk'.bc[1 - NextHalf]
                             = unit_pk.bc[1 - NextHalf]
                /\ unit_pk.bc # unit_pk'.bc => Packetised /\ Produced.armed
                /\ \/ unit_pk.bc[NextHalf].available
                   \/ ~next_packet(unit_pk.p).some
                   => /\ unit_pk'.bc = unit_pk.bc
                      /\ unit_pk'.p.remain = unit_pk.p.remain
                      /\ unit_pk'.p.offset = unit_pk.p.offset
                      /\ unit_pk'.p.next_prep = unit_pk.p.next_prep]_vars

\* three packets have been armed, in halves 0, 1 and 0, and the packetiser
\* has bytes left while the half it turns to is still with the peripheral
C30_Witness ==
    /\ Len(unit_packets) = 3
    /\ \A i \in 1 .. 3 : unit_packets[i].armed
    /\ unit_packets[3].half = 0
    /\ unit_pk.p.remain > 0
    /\ NextHalf = 1
    /\ unit_pk.bc[1].available

----------------------------------------------------------------------------
(* Properties of retire *)

\* the half the depacketiser turns to next
NextRetire == IF unit_dp.next_retire = 0 THEN 0 ELSE 1

\* C31: a depacketiser of either kind starts at half 0 and retires the
\* halves in turn: a retire that changes the depacketiser found the full bit
\* of the half it was at set, and leaves it at the other half; a retire that
\* finds that bit clear changes nothing, so that no half is retired twice
\* before the other.
C31_HalvesRetiredInTurn ==
    /\ unit_dp.next_retire = 0
    /\ [][\A reg \in RegValues :
             unit_retire(reg)
             => /\ unit_dp' # unit_dp
                   => /\ reg[NextRetire].full
                      /\ unit_dp'.next_retire = 1 - NextRetire
                /\ ~reg[NextRetire].full => unit_dp' = unit_dp
                /\ reg[NextRetire].full
                   => unit_dp'.next_retire = 1 - NextRetire]_vars

\* the depacketiser has copied one byte and is at half 0 again, with bytes
\* still to come: it has retired half 0 and then half 1
C31_Witness ==
    /\ unit_dp.kind = "In"
    /\ unit_dp.next_retire = 0
    /\ unit_dp.offset = 1
    /\ unit_dp.remain > 0

(***************************************************************************)
(* Properties of the inbound byte count                                    *)
(***************************************************************************)

\* C32: an inbound control transfer returns the number of bytes the device
\* delivered, capped at the size asked for: no half is counted twice
C32_ReturnsBytesDelivered ==
    [][result[1].kind # "Ok" /\ result'[1].kind = "Ok"
       => result'[1].n = Min(delivered, args[1].wLength)]_vars

\* the second half holds the device's short packet while the first half
\* still shows the full bit of the packet already retired
C32_Witness ==
    /\ pc[1] = "data_in"
    /\ depacketiser[1].next_retire = 1
    /\ depacketiser[1].remain > 0
    /\ bc[0].full /\ bc[0].length > 0
    /\ bc[1].full /\ bc[1].length = 0
    /\ "trans_complete" \in sie_status

(***************************************************************************)
(* Properties of the outbound source buffer                                *)
(***************************************************************************)

\* C33: for every size, packet size and source buffer of at least `size`
\* bytes, OutPacketiser::prepare never indexes the buffer at or beyond its
\* length, so it never panics, the trailing zero-length packet included
C33_PrepareStaysInsideBuffer == ~unit_pk.panic

\* the trailing zero-length packet of a buffer of exactly `size` bytes has
\* been armed in half 0, where prepare leaves the buffer alone
C33_Witness ==
    /\ unit_pk.p.kind = "Out"
    /\ unit.size > 0 /\ unit.buf_len = unit.size
    /\ Len(unit_packets) = 3
    /\ unit_packets[3].len = 0 /\ unit_packets[3].half = 0
    /\ unit_packets[3].armed
    /\ unit_pk.p.offset = unit.buf_len

----------------------------------------------------------------------------
(* Arming of buffer halves, register write by register write: every handler
   that arms a half is taken in two steps, up to and including the write of
   the half's fields, and from the write of the available bit to its
   return; the peripheral and the interrupt handler run between the two *)

\* a first write that sets the available bit together with the fields
fields_written_available(r) == r

\* the half after the first write of an arming: write() leaves available at
\* its reset value, modify() behind `!val.available_N()` finds it clear
fields_written(r) == [r EXCEPT !.available = FALSE]

\* packetiser.prepare(reg) up to the modify() of full, pid, last and length;
\* a prepare that arms nothing, or panics, is taken whole
prepare_fields ==
    LET h == half_of(unit_pk.p.next_prep)
        s == prepare(unit_pk)
    IN  /\ arming = NoArming
        /\ unit_pk.p.kind # "none"
        /\ ~unit_pk.panic
        /\ IF s.panic \/ s.bc[h] = unit_pk.bc[h]
           THEN /\ unit_pk' = s
                /\ arming' = arming
           ELSE /\ unit_pk' =
                    [unit_pk EXCEPT
                        !.bc[h] = fields_written(s.bc[h]),
                        !.p.need_zero_size_packet =
                            s.p.need_zero_size_packet,
                        !.p.remain = IF unit_pk.p.kind = "In"
                                     THEN s.p.remain ELSE @]
                /\ arming' = [site |-> "prepare", n |-> h]
        /\ UNCHANGED <<unit, unit_packets, unit_dp, ct_vars, hw_vars,
                       ip_vars, poll_vars, dd_vars, ni_vars, delivered, polling, irq_at, pipe_wakers>>

\* prepare from the modify() of available to its return
prepare_available ==
    LET h == arming.n
        this_packet == unit_pk.bc[h].length
    IN  /\ arming.site = "prepare"
        /\ unit_pk' =
            [unit_pk EXCEPT
                !.bc[h].available = TRUE,
                !.p.remain = IF unit_pk.p.kind = "Out"
                             THEN @ - this_packet ELSE @,
                !.p.offset = IF unit_pk.p.kind = "Out"
                             THEN @ + this_packet ELSE @,
                !.p.next_prep = 1 - h]
        /\ arming' = NoArming
        /\ UNCHANGED <<unit, unit_packets, unit_dp, ct_vars, hw_vars,
                       ip_vars, poll_vars, dd_vars, ni_vars, delivered, polling, irq_at, pipe_wakers>>

\* alloc_interrupt_pipe, with a slot free, up to the write() of
\* ep_buffer_control
alloc_interrupt_pipe_fields(u, a) ==
    LET i == try_alloc(bulk_pipes, BulkPoolSize)
        n == interrupt_pipe_n(i)
    IN  /\ arming = NoArming
        /\ task_runs
        /\ ip_pc[u] = "idle"
        /\ i # NoPipe
        /\ bulk_pipes' = pool_grant(bulk_pipes, i)
        /\ ip_pipe' = [ip_pipe EXCEPT ![u] =
                           [slot |-> i, n |-> n,
                            max_packet_size |-> a.max_packet_size,
                            data_toggle |-> FALSE]]
        /\ int_ep' = Put(int_ep, n, fields_written(endpoint_armed(n, a)))
        /\ arming' = [site |-> "alloc", n |-> n]
        /\ UNCHANGED <<ip_pc, ip_args, multi_live, multi_pipes,
                       try_add_result, pipe_info, ct_vars, hw_vars,
                       unit_vars, poll_vars, dd_vars, ni_vars, delivered, polling, irq_at, pipe_wakers>>

\* alloc_interrupt_pipe from the modify() of available to its return
alloc_interrupt_pipe_available(u) ==
    /\ arming.site = "alloc"
    /\ ip_pipe[u].n = arming.n
    /\ int_ep' = [int_ep EXCEPT ![arming.n].available = TRUE]
    /\ ip_pc' = [ip_pc EXCEPT ![u] = "held"]
    /\ arming' = NoArming
    /\ UNCHANGED <<bulk_pipes, ip_args, ip_pipe, multi_live, multi_pipes,
                   try_add_result, pipe_info, ct_vars, hw_vars, unit_vars,
                   poll_vars, dd_vars, ni_vars, delivered, polling, irq_at, pipe_wakers>>

\* try_add up to the write() of ep_buffer_control; without a free slot it
\* returns AllPipesInUse
try_add_fields(a) ==
    LET i == try_alloc(bulk_pipes, BulkPoolSize)
        p == try_add_p(i)
    IN  /\ arming = NoArming
        /\ task_runs
        /\ multi_live
        /\ IF i = NoPipe
           THEN /\ try_add_result' = "AllPipesInUse"
                /\ UNCHANGED <<bulk_pipes, multi_pipes, pipe_info, int_ep,
                               arming>>
           ELSE /\ bulk_pipes' = pool_grant(bulk_pipes, i)
                /\ multi_pipes' = multi_pipes \cup {i}
                /\ pipe_info' = Put(pipe_info, p,
                                    [address |-> a.address,
                                     endpoint |-> a.endpoint,
                                     max_packet_size |-> a.max_packet_size,
                                     data_toggle |-> FALSE])
                /\ int_ep' = Put(int_ep, p,
                                 fields_written(endpoint_armed(p, a)))
                /\ arming' = [site |-> "try_add", n |-> p]
                /\ UNCHANGED try_add_result
        /\ UNCHANGED <<ip_pc, ip_args, ip_pipe, multi_live, ct_vars,
                       hw_vars, unit_vars, poll_vars, dd_vars, ni_vars,
                       delivered, polling, irq_at, pipe_wakers>>

\* try_add from the modify() of available to Ok(())
try_add_available ==
    /\ arming.site = "try_add"
    /\ int_ep' = [int_ep EXCEPT ![arming.n].available = TRUE]
    /\ try_add_result' = "Ok"
    /\ arming' = NoArming
    /\ UNCHANGED <<bulk_pipes, ip_pc, ip_args, ip_pipe, multi_live,
                   multi_pipes, pipe_info, ct_vars, hw_vars, unit_vars,
                   poll_vars, dd_vars, ni_vars, delivered, polling, irq_at, pipe_wakers>>

\* Rp2040InterruptPipe::poll up to the write() of ep_buffer_control; a poll
\* that finds no packet arms nothing and is taken whole
Rp2040InterruptPipe_poll_fields(u) ==
    LET n == ip_pipe[u].n
        reg == int_ep[n]
        toggle == ~ip_pipe[u].data_toggle
    IN  /\ arming = NoArming
        /\ ip_pc[u] = "held"
        /\ IF reg.full
           THEN /\ task_runs
                /\ poll_result' =
                       InterruptPacket(interrupt_packet_size(reg), 0, 0)
                /\ ip_pipe' = [ip_pipe EXCEPT ![u].data_toggle = toggle]
                /\ int_ep' =
                       [int_ep EXCEPT ![n] =
                           fields_written(
                               rearmed(reg, toggle,
                                       ip_pipe[u].max_packet_size))]
                /\ arming' = [site |-> "poll", n |-> n]
                /\ UNCHANGED <<bulk_pipes, ip_pc, ip_args, multi_live,
                               multi_pipes, try_add_result, pipe_info,
                               ct_vars, hw_vars, int_ep_ctrl, stall_nak,
                               unit_vars, dd_vars, ni_vars, delivered, polling, irq_at, pipe_wakers>>
           ELSE Rp2040InterruptPipe_poll(u)

\* a poll of either kind of pipe from the modify() of available to
\* Some(result)
poll_available(site) ==
    /\ arming.site = site
    /\ int_ep' = [int_ep EXCEPT ![arming.n].available = TRUE]
    /\ arming' = NoArming
    /\ UNCHANGED <<bulk_pipes, ip_pc, ip_args, ip_pipe, multi_live,
                   multi_pipes, try_add_result, pipe_info, ct_vars, hw_vars,
                   unit_vars, poll_vars, dd_vars, ni_vars, delivered, polling, irq_at, pipe_wakers>>

\* Rp2040MultiInterruptPipe::poll up to the write() of ep_buffer_control of
\* the first full slot it owns
Rp2040MultiInterruptPipe_poll_fields ==
    LET p == first_owned(full_owned) + 1
        info == pipe_info[p]
        toggle == ~info.data_toggle
    IN  /\ arming = NoArming
        /\ multi_live
        /\ IF full_owned # {} /\ p \in DOMAIN pipe_info
           THEN /\ task_runs
                /\ poll_result' = multi_packet(info, int_ep[p])
                /\ pipe_info' = [pipe_info EXCEPT ![p].data_toggle = toggle]
                /\ int_ep' =
                       [int_ep EXCEPT ![p] =
                           fields_written(
                               rearmed(int_ep[p], toggle,
                                       info.max_packet_size))]
                /\ arming' = [site |-> "multi_poll", n |-> p]
                /\ UNCHANGED <<bulk_pipes, ip_pc, ip_args, ip_pipe,
                               multi_live, multi_pipes, try_add_result,
                               ct_vars, hw_vars, int_ep_ctrl, stall_nak,
                               unit_vars, dd_vars, ni_vars, delivered, polling, irq_at, pipe_wakers>>
           ELSE Rp2040MultiInterruptPipe_poll

ArmArgs == PipeArgs({1}, {8})

NextArm ==
    \/ prepare_fields
    \/ prepare_available
    \/ \E h \in {0, 1} : unit_complete(h)
    \/ \E a \in ArmArgs : alloc_interrupt_pipe_fields(1, a)
    \/ alloc_interrupt_pipe_available(1)
    \/ arming = NoArming /\ drop_interrupt_pipe(1)
    \/ arming = NoArming /\ multi_interrupt_pipe
    \/ \E a \in ArmArgs : multi_pipes = {} /\ try_add_fields(a)
    \/ try_add_available
    \/ Rp2040InterruptPipe_poll_fields(1)
    \/ poll_available("poll")
    \/ Rp2040MultiInterruptPipe_poll_fields
    \/ poll_available("multi_poll")
    \/ \E n \in 1 .. BulkPoolSize : hw_interrupt_packet(n, 8)
    \/ on_irq

\* data stages of up to MaxLen + 1 bytes, as for the data toggles
SpecArm == InitToggle /\ [][NextArm]_vars

(***************************************************************************)
(* Properties of the order of the arming writes                            *)
(***************************************************************************)

\* the fields the peripheral reads from an available half
Fields(r) == <<r.length, r.pid, r.last>>

\* a register write that leaves a half available has not touched its fields
Settled(old, new) == new.available => Fields(new) = Fields(old)

\* the half an arming is at, between its two writes
ArmingHalf ==
    IF arming.site = "prepare" THEN unit_pk.bc[arming.n]
    ELSE int_ep[arming.n]

\* C34: every arming (prepare, the polls' re-arm, alloc_interrupt_pipe,
\* try_add) writes length, pid and last of the half first and sets available
\* in a later write of its own: no step changes the fields of a half and
\* leaves it available, and a half is not available between the two writes,
\* so the peripheral never takes a half whose fields are not yet written
C34_FieldsBeforeAvailable ==
    /\ [](arming # NoArming => ~ArmingHalf.available)
    /\ [][/\ \A h \in {0, 1} : Settled(unit_pk.bc[h], unit_pk'.bc[h])
          /\ \A n \in DOMAIN int_ep' :
                 /\ n \in DOMAIN int_ep => Settled(int_ep[n], int_ep'[n])
                 /\ n \notin DOMAIN int_ep => ~int_ep'[n].available]_vars

\* a poll has written the fields of the half it re-arms, with the toggle
\* inverted, and not yet its available bit, while the packetiser has armed
\* half 0 and has written a packet to half 1
C34_Witness ==
    /\ arming.site = "poll"
    /\ int_ep[arming.n].pid
    /\ ~int_ep[arming.n].available
    /\ unit_pk.bc[0].available
    /\ unit_pk.bc[1].length > 0

----------------------------------------------------------------------------
(* The control-endpoint wait, register access by register access: a poll is
   taken in two steps, its reads and what follows them, and the peripheral
   and the interrupt handler run between the two *)

\* Rp2040ControlEndpoint::poll from its branch on, on the status and intr
\* it has read and the registers m as they are now: the write of
\* sie_status clears what is raised now
Rp2040ControlEndpoint_finish(m, status, intr) ==
    LET cleared == sie_status_write(m.sie_status, PollClearHi)
    IN  IF intr \cap MaskBits(WakeMask) # {}
        THEN [ready |-> TRUE, status |-> status,
              m |-> [m EXCEPT !.sie_status = cleared]]
        ELSE [ready |-> FALSE, status |-> status,
              m |-> [m EXCEPT !.sie_status = cleared,
                              !.inte = @ \cup {"stall", "error_rx_timeout",
                                               "trans_complete"}]]

\* the poll of an await of task t up to its branch: waker.register(),
\* sie_status().read() and intr().read()
Rp2040ControlEndpoint_read(t) ==
    /\ task_runs
    /\ polling = NoPolling
    /\ pc[t] \in Stages
    /\ t \in runnable
    /\ polling' = [t |-> t, status |-> sie_status,
                   intr |-> intr_of(sie_status, buff_status)]
    /\ waker0' = t
    /\ UNCHANGED <<control_pipes, pc, args, pipe, result, packetiser,
                   depacketiser, runnable, hw_vars, ip_vars, unit_vars,
                   poll_vars, dd_vars, ni_vars, delivered, arming, irq_at,
                   pipe_wakers>>

\* the poll returns Pending: the task sleeps unless its waker was taken,
\* and so woken, since the poll registered it
suspend_woken(t, m) ==
    /\ runnable' = IF waker0 = t THEN runnable \ {t} ELSE runnable
    /\ SetHw(m)
    /\ UNCHANGED <<control_pipes, pc, args, pipe, result, packetiser,
                   depacketiser, waker0>>

\* the loop of send_setup from the branch of the poll of its await
send_setup_finish(t) ==
    /\ task_runs
    /\ polling.t = t
    /\ pc[t] = "send_setup"
    /\ LET r == Rp2040ControlEndpoint_finish(Hw, polling.status,
                                             polling.intr)
           o == send_setup_check(r.status)
       IN  IF ~r.ready THEN suspend_woken(t, r.m)
           ELSE IF o = "complete" THEN data_phase(t, r.m, waker0)
           ELSE IF o = "again"
                THEN /\ SetHw(r.m)
                     /\ UNCHANGED <<control_pipes, pc, args, pipe, result,
                                    packetiser, depacketiser, runnable,
                                    waker0>>
           ELSE control_transfer_exit(t, Err(o), r.m, waker0)
    /\ polling' = NoPolling
    /\ UNCHANGED <<ip_vars, unit_vars, poll_vars, dd_vars, ni_vars,
                   delivered, arming, irq_at, pipe_wakers>>

\* the loop of control_transfer_inner from the branch of the poll of its
\* await
control_transfer_inner_finish(t) ==
    /\ task_runs
    /\ polling.t = t
    /\ pc[t] \in {"data_in", "data_out", "status"}
    /\ LET r == Rp2040ControlEndpoint_finish(Hw, polling.status,
                                             polling.intr)
           o == inner_check(r.status)
           m1 == [r.m EXCEPT !.buff_status = @ \ {0},
                             !.inte = @ \ InnerInts]
           size == IF pc[t] = "status" THEN 0 ELSE args[t].wLength
           direction == IF pc[t] = "data_out" THEN "Out" ELSE "In"
           d == depacketiser[t]
       IN  IF ~r.ready THEN suspend_woken(t, r.m)
           ELSE IF o = "complete"
                THEN inner_returned(t,
                         [m1 EXCEPT !.sie_status =
                                        sie_status_write(@, LoopClearHi)],
                         retire(retire(d, m1.bc), m1.bc))
           ELSE IF o = "again"
                THEN await_stage(t, pc[t],
                         inner_loop_top(m1,
                             [p |-> packetiser[t], bc |-> m1.bc,
                              panic |-> FALSE],
                             packets_of(size, args[t].packet_size),
                             direction, TRUE),
                         retire(retire(d, m1.bc), m1.bc), waker0)
           ELSE control_transfer_exit(t, Err(o), m1, waker0)
    /\ polling' = NoPolling
    /\ UNCHANGED <<ip_vars, unit_vars, poll_vars, dd_vars, ni_vars,
                   delivered, arming, irq_at, pipe_wakers>>

\* inbound transfers of up to MaxLen bytes
WaitArgs ==
    {[dir |-> "In", wLength |-> w, buf_len |-> w, packet_size |-> ps] :
        w \in 0 .. MaxLen, ps \in 1 .. MaxPacketSize}

NextWait ==
    \/ \E a \in WaitArgs :
           result[1] = NoResult /\ polling = NoPolling
               /\ control_transfer(1, a)
    \/ Rp2040ControlEndpoint_read(1)
    \/ send_setup_finish(1)
    \/ control_transfer_inner_finish(1)
    \/ hw_setup_complete
    \/ \E f \in EngineFlags : hw_raise(f)
    \/ \E n \in 0 .. MaxPacketSize : hw_in_packet(n)
    \/ on_irq

SpecWait == Init /\ [][NextWait]_vars

(***************************************************************************)
(* Properties of the wait between its reads and its suspension             *)
(***************************************************************************)

\* C35: no wake-up is lost between the status read of a poll and the
\* suspension: once the transaction a task waits for has ended, the task is
\* runnable or an interrupt that will wake it is pending
C35_NoLostWakeup ==
    \A t \in Tasks :
        pc[t] \in Stages /\ polling = NoPolling /\ ~trans
        => t \in runnable \/ irq_pending

\* the transaction completes after the poll has read the status and before
\* the poll has written to it
C35_Witness ==
    /\ polling.t = 1
    /\ waker0 = 1
    /\ "trans_complete" \in sie_status
    /\ "trans_complete" \notin polling.status
    /\ polling.intr \cap MaskBits(WakeMask) = {}

\* the flags of sie_status that report the end of a transaction or an error
EventFlags ==
    {"trans_complete", "data_seq_error", "stall_rec", "rx_overflow",
     "rx_timeout", "bit_stuff_error", "crc_error"}

\* what the poll in progress is about to do
Finishing ==
    Rp2040ControlEndpoint_finish(Hw, polling.status, polling.intr)

\* C36: the write of sie_status by a poll of the control-endpoint wait
\* clears no completion or error flag that is raised, unless the poll
\* returns Ready with a status that has the flag
C36_ClearsOnlyWhatItReports ==
    polling # NoPolling
    => (sie_status \ Finishing.m.sie_status) \cap EventFlags
           \subseteq (IF Finishing.ready THEN Finishing.status ELSE {})

\* a poll that read an error outside the wake mask is about to return
\* Pending
C36_Witness ==
    /\ polling.t = 1
    /\ "crc_error" \in polling.status
    /\ ~Finishing.ready

----------------------------------------------------------------------------
(* The wakers of the interrupt pipes *)

\* <Rp2040InterruptPipe as InterruptPipe>::set_waker
Rp2040InterruptPipe_set_waker(u) ==
    /\ task_runs
    /\ ip_pc[u] = "held"
    /\ pipe_wakers' = pipe_wakers \cup {ip_pipe[u].n}
    /\ UNCHANGED <<ct_vars, hw_vars, ip_vars, unit_vars, poll_vars, dd_vars,
                   ni_vars, delivered, arming, polling, irq_at>>

\* <Rp2040MultiInterruptPipe as InterruptPipe>::set_waker: the entry i + 1
\* of every owned pool index i
Rp2040MultiInterruptPipe_set_waker ==
    /\ task_runs
    /\ multi_live
    /\ pipe_wakers' = pipe_wakers \cup {i + 1 : i \in multi_pipes}
    /\ UNCHANGED <<ct_vars, hw_vars, ip_vars, unit_vars, poll_vars, dd_vars,
                   ni_vars, delivered, arming, polling, irq_at>>

\* one device with small packets
WakerArgs == PipeArgs({1}, {8})

\* the pipes whose buffers complete: the first, the last the wake loop
\* visits and the last of the pool
WakerPipes == {1, WakeLoopEnd - 1, BulkPoolSize}

\* a multiplexed pipe that takes up to every slot of the pool, polled and
\* registered for wake-ups while the peripheral completes buffers
NextWakers ==
    \/ multi_interrupt_pipe
    \/ \E a \in WakerArgs : try_add(a)
    \/ Rp2040MultiInterruptPipe_poll
    \/ Rp2040MultiInterruptPipe_set_waker
    \/ \E n \in WakerPipes : hw_interrupt_packet(n, 8)
    \/ on_irq

SpecWakers == Init /\ [][NextWakers]_vars

(***************************************************************************)
(* Properties of the wake loop of on_irq                                   *)
(***************************************************************************)

\* regs.ints() as on_irq reads it first
IrqInts == ints_read(sie_status, buff_status, conn_dis, inte)

\* C37: on_irq, entered with buff_status asserted, wakes the waker of every
\* pipe 0 .. 15 whose buffer-status bits are set and of no pipe whose bits
\* are clear
C37_WakesEveryPipeWithBitsSet ==
    [][on_irq /\ "buff_status" \in IrqInts
       => /\ \A n \in 1 .. BulkPoolSize :
                 /\ n \in buff_status => n \notin pipe_wakers'
                 /\ n \notin buff_status
                        => (n \in pipe_wakers' <=> n \in pipe_wakers)
          /\ 0 \in buff_status => waker0' = NoTask
          /\ 0 \notin buff_status => waker0' = waker0]_vars

\* the buffer of pipe 15 is full and its waker registered, and the handler
\* has cleared the buffer status: nothing is pending
C37_Witness ==
    /\ BulkPoolSize \in pipe_wakers
    /\ int_ep[BulkPoolSize].full
    /\ buff_status = {}
    /\ ~irq_pending

----------------------------------------------------------------------------
(* The interrupt handler, register access by register access: on_irq is
   taken in two steps, from its entry to the end of the wake loop and from
   the write of buff_status to its return, and the peripheral runs between
   the two *)

\* on_irq from regs.ints().read() to the end of the wake loop
on_irq_read ==
    LET ints == ints_read(sie_status, buff_status, conn_dis, inte)
    IN  /\ irq_pending
        /\ irq_at = NoIrq
        /\ irq_at' = [at |-> "woken", ints |-> ints,
                      bs |-> IF "buff_status" \in ints THEN buff_status
                             ELSE {}]
        /\ pipe_wakers' = pipe_wakers \ wake_loop(ints, buff_status)
        /\ wake_pipe0("buff_status" \in ints /\ 0 \in buff_status)
        /\ UNCHANGED <<control_pipes, pc, args, pipe, result, packetiser,
                       depacketiser, hw_vars, ip_vars, unit_vars, poll_vars,
                       dd_vars, ni_vars, delivered, arming, polling>>

\* on_irq from regs.buff_status().write(0xFFFF_FFFC) to its return
on_irq_write ==
    LET ints == irq_at.ints
        bs == IF "buff_status" \in ints THEN buff_status \cap {0}
              ELSE buff_status
        conn == "host_conn_dis" \in ints
    IN  /\ irq_at.at = "woken"
        /\ \E w1c \in IF conn THEN BOOLEAN ELSE {FALSE} :
            LET status == IF conn
                          THEN sie_status_modify_speed(sie_status, w1c)
                          ELSE sie_status
                bits == ints_read(status, bs, conn_dis /\ ~conn, inte)
            IN  /\ buff_status' = bs
                /\ sie_status' = status
                /\ conn_dis' = (conn_dis /\ ~conn)
                /\ inte' = disable_sources(inte, bits)
                /\ wake_pipe0(ints \cap MaskBits(WakeMask) # {})
                /\ wake_device(conn)
        /\ irq_at' = NoIrq
        /\ UNCHANGED <<control_pipes, pc, args, pipe, result, packetiser,
                       depacketiser, sie_ctrl, trans, epx_control, bc,
                       hw_half, setup_packet, ip_vars, unit_vars, poll_vars,
                       speed, dd_status, dd_result, ni_vars, delivered,
                       arming, polling, pipe_wakers>>

\* a multiplexed pipe of up to MaxEndpoints endpoints, polled and registered
\* for wake-ups by a task that the handler preempts
NextIrqSteps ==
    \/ irq_at = NoIrq /\ multi_interrupt_pipe
    \/ \E a \in WakerArgs :
           /\ irq_at = NoIrq
           /\ Cardinality(multi_pipes) < MaxEndpoints
           /\ try_add(a)
    \/ irq_at = NoIrq /\ Rp2040MultiInterruptPipe_poll
    \/ irq_at = NoIrq /\ Rp2040MultiInterruptPipe_set_waker
    \/ \E n \in 1 .. MaxEndpoints : hw_interrupt_packet(n, 8)
    \/ on_irq_read
    \/ on_irq_write

SpecIrqSteps == Init /\ [][NextIrqSteps]_vars

(***************************************************************************)
(* Properties of the clearing write of on_irq                              *)
(***************************************************************************)

\* C38: on_irq clears the buffer-status bits of a pipe only if it has woken
\* the waker of that pipe in the same invocation: a bit the peripheral sets
\* between the read of buff_status and the clearing write is left set, or
\* its pipe is woken
C38_ClearsOnlyWhatItWoke ==
    [][on_irq_write
       => \A n \in 0 .. BulkPoolSize :
              n \in buff_status /\ n \notin buff_status'
              => n \in wake_loop(irq_at.ints, irq_at.bs)]_vars

\* the handler has read buff_status and woken pipe 1; pipe 2, whose waker
\* is registered, has completed since
C38_Witness ==
    /\ irq_at.at = "woken"
    /\ irq_at.bs = {1}
    /\ 2 \in buff_status
    /\ 2 \in pipe_wakers
    /\ 1 \notin pipe_wakers

(***************************************************************************)
(* Properties of the PipeInfo table                                        *)
(***************************************************************************)

\* C39: every pool index i that a Rp2040MultiInterruptPipe owns has its
\* PipeInfo at pipe_info[i + 1], and no poll has panicked on the lookup
C39_OwnedSlotsHavePipeInfo ==
    multi_live
    => /\ \A i \in multi_pipes : i + 1 \in DOMAIN pipe_info
       /\ poll_result.size # Panicked

\* the pipe owns every slot of the pool and a poll has taken a packet from
\* the last of them, inverting its toggle
C39_Witness ==
    /\ multi_live
    /\ Cardinality(multi_pipes) = BulkPoolSize
    /\ poll_result.some
    /\ pipe_info[BulkPoolSize].data_toggle
    /\ try_add_result = "AllPipesInUse"

(***************************************************************************)
(* Properties of a multiplexed pipe with one endpoint                      *)
(***************************************************************************)

\* C40: a poll of a multiplexed pipe that owns exactly one slot does what
\* the poll of a single-endpoint pipe on that slot does with the same
\* buffer: it returns a packet of the same size and arms the buffer again
\* the same way, or it returns None and writes the same bits to inte,
\* int_ep_ctrl and ep_status_stall_nak
C40_OneSlotPollsLikeSinglePipe ==
    [][Rp2040MultiInterruptPipe_poll /\ Cardinality(multi_pipes) = 1
       => LET p == first_owned(multi_pipes) + 1
              info == pipe_info[p]
              reg == int_ep[p]
          IN  IF reg.full
              THEN /\ poll_result'.some
                   /\ poll_result'.size = interrupt_packet_size(reg)
                   /\ int_ep'[p] = rearmed(reg, ~info.data_toggle,
                                           info.max_packet_size)
                   /\ UNCHANGED <<inte, int_ep_ctrl, stall_nak>>
              ELSE /\ poll_result' = NoPacket
                   /\ inte' = inte \cup {"buff_status"}
                   /\ int_ep_ctrl' = int_ep_ctrl \cup int_ep_bit(p)
                   /\ stall_nak' = stall_nak_mask(p)
                   /\ UNCHANGED int_ep]_vars

\* the multiplexed pipe owns pool index 0, hardware pipe 1, alone, and a
\* poll that found no packet has enabled the endpoint and written the
\* stall/NAK mask
C40_Witness ==
    /\ multi_live
    /\ multi_pipes = {0}
    /\ ~poll_result.some
    /\ 1 \in int_ep_ctrl
    /\ stall_nak = {0}

====
